---- MODULE Spec2Model ----
(***************************************************************************)
(* fourkeys-go: webhook ingress (event-handler), queue relay and the       *)
(* github-parser consumer that normalizes GitHub events into EventRecord.  *)
(*                                                                         *)
(* Byte strings ([]byte, string) are TLA+ strings; a character is a string *)
(* of length one.  Library primitives are modelled by what they compute:   *)
(* hex by its digit table, HMAC by a keyed polynomial digest that is       *)
(* collision free on the inputs the specifications draw.                   *)
(***************************************************************************)
EXTENDS Integers, Sequences, FiniteSets, TLC

VARIABLES vin, vout, nin, nout, exchange, topic, sink, cin, cout, lin, lout

vars == <<vin, vout, nin, nout, exchange, topic, sink, cin, cout, lin, lout>>

(***************************************************************************)
(* Bounds of the model.                                                    *)
(***************************************************************************)
\* longest raw body, in bytes, that the verifier specification draws
MaxBodyLen == 2
\* longest key path the navigator specification draws
MaxPathLen == 3
\* messages the topic holds at once
MaxTopic == 1
\* rows the sink holds at once
MaxSink == 1

(***************************************************************************)
(* Characters and bytes.                                                   *)
(***************************************************************************)
\* printable ASCII: AsciiLow holds the characters with codes 32..95 and
\* AsciiHigh those with codes 97..126, in order
AsciiLow == " !\"#$%&'()*+,-./0123456789:;<=>?@ABCDEFGHIJKLMNOPQRSTUVWXYZ[\\]^_"

AsciiHigh == "abcdefghijklmnopqrstuvwxyz{|}~"

CharAt(s, i) == SubSeq(s, i, i)

CharCodes ==
    [c \in {CharAt(AsciiLow, p) : p \in 1..Len(AsciiLow)}
            \cup {CharAt(AsciiHigh, p) : p \in 1..Len(AsciiHigh)} |->
        IF \E p \in 1..Len(AsciiLow) : CharAt(AsciiLow, p) = c
        THEN 31 + (CHOOSE p \in 1..Len(AsciiLow) : CharAt(AsciiLow, p) = c)
        ELSE 96 + (CHOOSE p \in 1..Len(AsciiHigh) : CharAt(AsciiHigh, p) = c)]

CharCode(c) == CharCodes[c]

\* s[n:] of Go, for 0 <= n <= len(s)
StrFrom(s, n) == SubSeq(s, n + 1, Len(s))

\* Body of the value of an expression, which is computed once
With(value, Body(_)) == CHOOSE y \in {Body(x) : x \in {value}} : TRUE

\* the strings parts[lo], ..., parts[hi] joined
RECURSIVE Concat(_, _, _)
Concat(parts, lo, hi) ==
    IF lo > hi THEN ""
    ELSE IF lo = hi THEN parts[lo]
    ELSE Concat(parts, lo, (lo + hi) \div 2) \o Concat(parts, (lo + hi) \div 2 + 1, hi)

\* strings.Contains(s, sub)
StrContains(s, sub) ==
    \E i \in 1..(Len(s) - Len(sub) + 1) : SubSeq(s, i, i + Len(sub) - 1) = sub

(***************************************************************************)
(* encoding/hex                                                            *)
(***************************************************************************)
hextable == "0123456789abcdef"

\* reverseHexTable: the value of a hex digit of either case, 16 for any other byte
reverseHexTable ==
    [c \in DOMAIN CharCodes |->
        IF \E p \in 1..16 : CharAt(hextable, p) = c
        THEN (CHOOSE p \in 1..16 : CharAt(hextable, p) = c) - 1
        ELSE IF \E p \in 1..6 : CharAt("ABCDEF", p) = c
             THEN 9 + (CHOOSE p \in 1..6 : CharAt("ABCDEF", p) = c)
             ELSE 16]

fromHexChar(c) == reverseHexTable[c]

hexEncodeToString(bytes) ==
    Concat([i \in 1..Len(bytes) |->
                CharAt(hextable, (bytes[i] \div 16) + 1)
                \o CharAt(hextable, (bytes[i] % 16) + 1)],
           1, Len(bytes))

\* number of leading byte pairs of src that are two hex digits each
hexGoodPairs(src) ==
    LET bad == {j \in 1..(Len(src) \div 2) :
                    \/ fromHexChar(CharAt(src, 2 * j - 1)) > 15
                    \/ fromHexChar(CharAt(src, 2 * j)) > 15}
    IN  IF bad = {} THEN Len(src) \div 2
        ELSE (CHOOSE j \in bad : \A k \in bad : j <= k) - 1

hexPairByte(src, j) ==
    fromHexChar(CharAt(src, 2 * j - 1)) * 16 + fromHexChar(CharAt(src, 2 * j))

\* hex.Decode(dst, src): the pairs are written to dst in order until the first
\* byte that is no hex digit; writing past the end of dst panics; an odd
\* length or a bad byte is an error
hexDecode(dst, src) ==
    LET n == hexGoodPairs(src)
    IN  IF n > Len(dst)
        THEN [panic |-> TRUE, dst |-> dst, err |-> FALSE]
        ELSE [panic |-> FALSE,
              dst   |-> [i \in 1..Len(dst) |->
                            IF i <= n THEN hexPairByte(src, i) ELSE dst[i]],
              err   |-> (2 * n # Len(src))]

\* hex.DecodeString(s): dst is as long as the source has pairs
hexDecodeString(s) ==
    LET n == hexGoodPairs(s)
    IN  [bytes |-> [i \in 1..n |-> hexPairByte(s, i)],
         err   |-> (2 * n # Len(s))]

(***************************************************************************)
(* crypto/hmac                                                             *)
(***************************************************************************)
Sha256Size == 32
Sha1Size == 20

DigestModulus == 32749
DigestBase == 131

\* DigestBase^n in the modulus
RECURSIVE digestPower(_)
digestPower(n) ==
    IF n = 0 THEN 1
    ELSE IF n % 2 = 0 THEN (digestPower(n \div 2) * digestPower(n \div 2)) % DigestModulus
    ELSE (DigestBase * digestPower(n - 1)) % DigestModulus

\* the polynomial of the bytes s[lo..hi]
RECURSIVE digestRange(_, _, _)
digestRange(s, lo, hi) ==
    IF lo > hi THEN 0
    ELSE IF lo = hi THEN CharCode(CharAt(s, lo))
    ELSE LET mid == (lo + hi) \div 2
         IN  (digestRange(s, lo, mid) * digestPower(hi - mid)
              + digestRange(s, mid + 1, hi)) % DigestModulus

\* the digest state h after the bytes of s are written to it
digestFold(s, h) ==
    (h * digestPower(Len(s)) + digestRange(s, 1, Len(s))) % DigestModulus

\* h := hmac.New(hash, key); h.Write(body); h.Sum(nil)
hmacSum(size, key, body) ==
    LET h == digestFold(body, digestFold(key, size))
    IN  [i \in 1..size |->
            IF i = 1 THEN h % 256
            ELSE IF i = 2 THEN h \div 256
            ELSE (h * i + 7 * i) % 256]

\* hmac.Equal: same length and same bytes
hmacEqual(a, b) == Len(a) = Len(b) /\ \A i \in 1..Len(a) : a[i] = b[i]

(***************************************************************************)
(* Signature verification (ingress).  A verifier's outcome is a return     *)
(* value or a runtime panic of the slice expression signature[n:].         *)
(***************************************************************************)
Returned(b) == [kind |-> "ret", v |-> b]
Panicked == [kind |-> "panic", v |-> FALSE]

signaturePrefix == "sha256="

\* mutant: the MAC is keyed with the empty key instead of the configured secret
verifyGithubSignature256_Unkeyed(secret, signature, body) ==
    LET expectedMAC == hmacSum(Sha256Size, "", body)
    IN  IF Len(signature) < Len(signaturePrefix) THEN Panicked
        ELSE LET d == hexDecodeString(StrFrom(signature, Len(signaturePrefix)))
             IN  IF d.err THEN Returned(FALSE)
                 ELSE Returned(hmacEqual(d.bytes, expectedMAC))

verifyGithubSignature256(secret, signature, body) ==
    LET expectedMAC == hmacSum(Sha256Size, secret, body)
    IN  IF Len(signature) < Len(signaturePrefix) THEN Panicked
        ELSE LET d == hexDecodeString(StrFrom(signature, Len(signaturePrefix)))
             IN  IF d.err THEN Returned(FALSE)
                 ELSE Returned(hmacEqual(d.bytes, expectedMAC))

Sha1PrefixLen == 5

verifyGithubSignature(secret, signature, body) ==
    LET expectedMAC == hmacSum(Sha1Size, secret, body)
        receivedMAC == [i \in 1..Sha1Size |-> 0]
    IN  IF Len(signature) < Sha1PrefixLen THEN Panicked
        ELSE LET d == hexDecode(receivedMAC, StrFrom(signature, Sha1PrefixLen))
             IN  IF d.panic THEN Panicked
                 ELSE Returned(hmacEqual(d.dst, expectedMAC))

(***************************************************************************)
(* encoding/base64 (StdEncoding, padded)                                   *)
(***************************************************************************)
encodeStd == "ABCDEFGHIJKLMNOPQRSTUVWXYZabcdefghijklmnopqrstuvwxyz0123456789+/"

decodeMap ==
    [c \in DOMAIN CharCodes |->
        IF \E p \in 1..64 : CharAt(encodeStd, p) = c
        THEN (CHOOSE p \in 1..64 : CharAt(encodeStd, p) = c) - 1
        ELSE 255]

\* the printable character with a byte value ("?" stands for any other byte)
ByteChar(code) ==
    IF code \in 32..95 THEN CharAt(AsciiLow, code - 31)
    ELSE IF code \in 97..126 THEN CharAt(AsciiHigh, code - 96)
    ELSE "?"

\* three bytes (the last group: one or two, padded with "=") give four characters
base64EncodeToString(src) ==
    LET b(i) == CharCode(CharAt(src, i))
        e(v) == CharAt(encodeStd, v + 1)
        n == (Len(src) + 2) \div 3
        group(k) ==
            LET i == 3 * k - 2
            IN  IF i = Len(src)
                THEN e(b(i) \div 4) \o e((b(i) % 4) * 16) \o "=="
                ELSE IF i + 1 = Len(src)
                THEN e(b(i) \div 4) \o e((b(i) % 4) * 16 + b(i + 1) \div 16)
                     \o e((b(i + 1) % 16) * 4) \o "="
                ELSE e(b(i) \div 4) \o e((b(i) % 4) * 16 + b(i + 1) \div 16)
                     \o e((b(i + 1) % 16) * 4 + b(i + 2) \div 64) \o e(b(i + 2) % 64)
    IN  Concat([k \in 1..n |-> group(k)], 1, n)

\* four characters give three bytes; "=" pads only the end of the last four
base64DecodeString(s) ==
    LET n == Len(s) \div 4
        d(i) == decodeMap[CharAt(s, i)]
        bad == [err |-> TRUE, bytes |-> ""]
        quantum(k) ==
            LET i == 4 * k - 3
                last == k = n
            IN  IF d(i) = 255 \/ d(i + 1) = 255 THEN bad
                ELSE IF last /\ SubSeq(s, i + 2, i + 3) = "=="
                THEN [err |-> FALSE, bytes |-> ByteChar(d(i) * 4 + d(i + 1) \div 16)]
                ELSE IF d(i + 2) = 255 THEN bad
                ELSE IF last /\ CharAt(s, i + 3) = "="
                THEN [err |-> FALSE,
                      bytes |-> ByteChar(d(i) * 4 + d(i + 1) \div 16)
                                \o ByteChar((d(i + 1) % 16) * 16 + d(i + 2) \div 4)]
                ELSE IF d(i + 3) = 255 THEN bad
                ELSE [err |-> FALSE,
                      bytes |-> ByteChar(d(i) * 4 + d(i + 1) \div 16)
                                \o ByteChar((d(i + 1) % 16) * 16 + d(i + 2) \div 4)
                                \o ByteChar((d(i + 2) % 4) * 64 + d(i + 3))]
        quanta == [k \in 1..n |-> quantum(k)]
    IN  IF Len(s) % 4 # 0 \/ \E k \in 1..n : quanta[k].err THEN bad
        ELSE [err |-> FALSE, bytes |-> Concat([k \in 1..n |-> quanta[k].bytes], 1, n)]

(***************************************************************************)
(* Decoded JSON (encoding/json into interface{}): an object is a           *)
(* map[string]interface{}, a number a float64 (kept in thousandths), null  *)
(* the nil interface.                                                      *)
(***************************************************************************)
JString(str) == [t |-> "string", s |-> str]
JNumber(thousandths) == [t |-> "float64", milli |-> thousandths]
JBool(b) == [t |-> "bool", b |-> b]
JNull == [t |-> "nil"]
JObject(fields) == [t |-> "map", m |-> fields]
JArray(items) == [t |-> "array", a |-> items]

EmptyMap == [k \in {} |-> JNull]

\* an int held by an interface{} (a Go literal; no decoded document has one)
GoInt(n) == [t |-> "int", i |-> n]

(***************************************************************************)
(* shared.LookupMap / shared.LookupMapE                                    *)
(***************************************************************************)
\* reflect.Zero of the requested type
Zero(T) == IF T = "string" THEN "" ELSE IF T = "bool" THEN FALSE ELSE 0

\* the Go value an interface of dynamic type T holds
GoValue(val) ==
    IF val.t = "string" THEN val.s
    ELSE IF val.t = "float64" THEN val.milli
    ELSE IF val.t = "int" THEN val.i
    ELSE IF val.t = "bool" THEN val.b
    ELSE val

\* the loop over keys: where it stops and why
RECURSIVE lookupWalk(_, _, _)
lookupWalk(val, keys, walked) ==
    IF keys = <<>> THEN [stop |-> "end", val |-> val, walked |-> walked]
    ELSE IF val.t # "map" THEN [stop |-> "notmap", val |-> val, walked |-> walked]
    ELSE IF Head(keys) \notin DOMAIN val.m
         THEN [stop |-> "notfound", val |-> val, walked |-> Append(walked, Head(keys))]
         ELSE lookupWalk(val.m[Head(keys)], Tail(keys), Append(walked, Head(keys)))

\* mutant: a final value of another type is reported found, as the zero value
LookupMap_DefaultFound(T, m, keys) ==
    LET w == lookupWalk(JObject(m), keys, <<>>)
    IN  IF w.stop # "end" THEN [v |-> Zero(T), ok |-> FALSE]
        ELSE IF w.val.t # T THEN [v |-> Zero(T), ok |-> TRUE]
        ELSE [v |-> GoValue(w.val), ok |-> TRUE]

LookupMap(T, m, keys) ==
    LET w == lookupWalk(JObject(m), keys, <<>>)
    IN  IF w.stop # "end" THEN [v |-> Zero(T), ok |-> FALSE]
        ELSE IF w.val.t # T THEN [v |-> Zero(T), ok |-> FALSE]
        ELSE [v |-> GoValue(w.val), ok |-> TRUE]

NoError == [kind |-> "nil"]

LookupMapE(T, m, keys) ==
    LET w == lookupWalk(JObject(m), keys, <<>>)
    IN  IF w.stop = "notmap"
        THEN [v |-> Zero(T), err |-> [kind |-> "key is not a map", walked |-> w.walked]]
        ELSE IF w.stop = "notfound"
        THEN [v |-> Zero(T),
              err |-> [kind |-> "key not found", walked |-> w.walked, in |-> w.val.m]]
        ELSE IF w.val.t # T
        THEN [v |-> Zero(T),
              err |-> [kind |-> "value is not of type", val |-> w.val, T |-> T]]
        ELSE [v |-> GoValue(w.val), err |-> NoError]

(***************************************************************************)
(* fmt.Errorf as LookupMapE uses it: the verbs %s, %v and %T                *)
(***************************************************************************)
\* a < b for strings, byte by byte
StrLess(a, b) ==
    \E i \in 1..(Len(a) + 1) :
        /\ i <= Len(b)
        /\ SubSeq(a, 1, i - 1) = SubSeq(b, 1, i - 1)
        /\ i <= Len(a) => CharCode(CharAt(a, i)) < CharCode(CharAt(b, i))

\* the keys of a map in the order fmt prints them
RECURSIVE SortedKeys(_)
SortedKeys(S) ==
    IF S = {} THEN <<>>
    ELSE LET least == CHOOSE x \in S : \A y \in S \ {x} : StrLess(x, y)
         IN  <<least>> \o SortedKeys(S \ {least})

\* strings.Join(elems, sep)
RECURSIVE StringsJoin(_, _)
StringsJoin(elems, sep) ==
    IF elems = <<>> THEN ""
    ELSE IF Len(elems) = 1 THEN elems[1]
    ELSE elems[1] \o sep \o StringsJoin(Tail(elems), sep)

\* s without its trailing "0" characters
RECURSIVE TrimZeros(_)
TrimZeros(s) ==
    IF s # "" /\ CharAt(s, Len(s)) = "0" THEN TrimZeros(SubSeq(s, 1, Len(s) - 1)) ELSE s

\* %v of a float64 (given in thousandths): the shortest digits, in exponent
\* form from 1e+06 on
formatFloat(milli) ==
    LET abs == IF milli < 0 THEN -milli ELSE milli
        sign == IF milli < 0 THEN "-" ELSE ""
        whole == ToString(abs \div 1000)
        f == abs % 1000
        frac == TrimZeros(ToString(f \div 100) \o ToString((f \div 10) % 10)
                          \o ToString(f % 10))
        exp == Len(whole) - 1
        digits == TrimZeros(whole \o frac)
    IN  IF exp < 6
        THEN sign \o whole \o (IF frac = "" THEN "" ELSE "." \o frac)
        ELSE sign \o CharAt(digits, 1)
             \o (IF Len(digits) > 1 THEN "." \o StrFrom(digits, 1) ELSE "")
             \o "e+" \o (IF exp < 10 THEN "0" ELSE "") \o ToString(exp)

\* %v of a value held by an interface{}
RECURSIVE formatV(_)
formatV(val) ==
    CASE val.t = "string" -> val.s
      [] val.t = "float64" -> formatFloat(val.milli)
      [] val.t = "int" -> ToString(val.i)
      [] val.t = "bool" -> (IF val.b THEN "true" ELSE "false")
      [] val.t = "nil" -> "<nil>"
      [] val.t = "array" ->
            "[" \o StringsJoin([i \in 1..Len(val.a) |-> formatV(val.a[i])], " ") \o "]"
      [] val.t = "map" ->
            LET keys == SortedKeys(DOMAIN val.m)
            IN  "map["
                \o StringsJoin([i \in 1..Len(keys) |->
                                    keys[i] \o ":" \o formatV(val.m[keys[i]])], " ")
                \o "]"

\* err.Error() of the three errors of LookupMapE; the map printed by the
\* first is the nil map the failed assertion left in m
errorText(err) ==
    CASE err.kind = "key is not a map" ->
            "key " \o StringsJoin(err.walked, ".") \o " is not a map: "
            \o formatV(JObject(EmptyMap))
      [] err.kind = "key not found" ->
            "key " \o StringsJoin(err.walked, ".") \o " not found in "
            \o formatV(JObject(err.in))
      [] err.kind = "value is not of type" ->
            "value " \o formatV(err.val) \o " is not of type " \o err.T
      [] OTHER -> ""

(***************************************************************************)
(* time.Parse(time.RFC3339, s)                                             *)
(***************************************************************************)
IsDigits(s) == \A i \in 1..Len(s) : fromHexChar(CharAt(s, i)) <= 9

RECURSIVE Atoi(_)
Atoi(s) ==
    IF s = "" THEN 0
    ELSE Atoi(SubSeq(s, 1, Len(s) - 1)) * 10 + fromHexChar(CharAt(s, Len(s)))

DaysIn(year, month) ==
    IF month \in {4, 6, 9, 11} THEN 30
    ELSE IF month # 2 THEN 31
    ELSE IF year % 4 = 0 /\ (year % 100 # 0 \/ year % 400 = 0) THEN 29
    ELSE 28

\* digits of a fractional second that follow the seconds field, "" if none
RECURSIVE FractionLen(_, _)
FractionLen(s, n) ==
    IF n < Len(s) /\ IsDigits(CharAt(s, n + 1)) THEN FractionLen(s, n + 1) ELSE n

ZeroTime == [year |-> 1, month |-> 1, day |-> 1, hour |-> 0, min |-> 0, sec |-> 0,
             frac |-> "", offset |-> 0]

timeParseRFC3339(s) ==
    LET shape == /\ Len(s) >= 20
                 /\ IsDigits(SubSeq(s, 1, 4)) /\ CharAt(s, 5) = "-"
                 /\ IsDigits(SubSeq(s, 6, 7)) /\ CharAt(s, 8) = "-"
                 /\ IsDigits(SubSeq(s, 9, 10)) /\ CharAt(s, 11) = "T"
                 /\ IsDigits(SubSeq(s, 12, 13)) /\ CharAt(s, 14) = ":"
                 /\ IsDigits(SubSeq(s, 15, 16)) /\ CharAt(s, 17) = ":"
                 /\ IsDigits(SubSeq(s, 18, 19))
        rest == StrFrom(s, 19)
        fl   == IF Len(rest) >= 2 /\ CharAt(rest, 1) = "." /\ IsDigits(CharAt(rest, 2))
                THEN FractionLen(rest, 1) ELSE 0
        frac == IF fl = 0 THEN "" ELSE SubSeq(rest, 2, fl)
        zone == StrFrom(rest, fl)
        zoneOK == \/ zone = "Z"
                  \/ /\ Len(zone) = 6
                     /\ CharAt(zone, 1) \in {"+", "-"}
                     /\ IsDigits(SubSeq(zone, 2, 3)) /\ CharAt(zone, 4) = ":"
                     /\ IsDigits(SubSeq(zone, 5, 6))
                     /\ Atoi(SubSeq(zone, 2, 3)) <= 24 /\ Atoi(SubSeq(zone, 5, 6)) <= 60
        year == Atoi(SubSeq(s, 1, 4))
        month == Atoi(SubSeq(s, 6, 7))
        day == Atoi(SubSeq(s, 9, 10))
        hour == Atoi(SubSeq(s, 12, 13))
        min == Atoi(SubSeq(s, 15, 16))
        sec == Atoi(SubSeq(s, 18, 19))
        rangeOK == /\ month \in 1..12 /\ day \in 1..DaysIn(year, month)
                   /\ hour <= 23 /\ min <= 59 /\ sec <= 59
    IN  IF shape /\ zoneOK /\ rangeOK
        THEN [ok |-> TRUE,
              t  |-> [year |-> year, month |-> month, day |-> day, hour |-> hour,
                      min |-> min, sec |-> sec, frac |-> frac,
                      offset |-> IF zone = "Z" THEN 0
                                 ELSE (IF CharAt(zone, 1) = "-" THEN -1 ELSE 1)
                                      * (Atoi(SubSeq(zone, 2, 3)) * 60
                                         + Atoi(SubSeq(zone, 5, 6)))]]
        ELSE [ok |-> FALSE, t |-> ZeroTime]

(***************************************************************************)
(* github-parser: processGithubEvent                                       *)
(***************************************************************************)
\* mutant: "star" is let through the filter
eventTypes_WithStar ==
    {"push", "pull_request", "pull_request_review", "pull_request_review_comment",
     "issues", "issue_comment", "check_run", "check_suite", "status",
     "deployment_status", "release", "star"}

eventTypes ==
    {"push", "pull_request", "pull_request_review", "pull_request_review_comment",
     "issues", "issue_comment", "check_run", "check_suite", "status",
     "deployment_status", "release"}

\* int(x) of a float64: the fraction is dropped (toward zero)
IntOfFloat(milli) == IF milli >= 0 THEN milli \div 1000 ELSE -((-milli) \div 1000)

\* headers[name][0]: indexing the nil or empty slice panics
HasFirst(headers, name) == name \in DOMAIN headers /\ Len(headers[name]) >= 1

\* what the switch leaves in maybeTimeCreated, id, tOk, iOk, tErr, iErr
Extracted(ts, tOk, id, iOk, tErr, iErr) ==
    [maybeTimeCreated |-> ts, tOk |-> tOk, id |-> id, iOk |-> iOk,
     tErr |-> tErr, iErr |-> iErr, supported |-> TRUE]

\* mutant: the fallback field is preferred to the first candidate
FirstFound_SecondWins(first, second) ==
    IF second.ok THEN second
    ELSE IF first.ok THEN first
    ELSE [v |-> "", ok |-> FALSE]

\* first candidate if it is found, else the second if it is found
FirstFound(first, second) ==
    IF first.ok THEN first
    ELSE IF second.ok THEN second
    ELSE [v |-> "", ok |-> FALSE]

\* mutant: an id is composed as soon as one of the two parts was found
ComposedId_EitherPart(repoName, number) ==
    IF repoName.ok \/ number.ok
    THEN [v |-> repoName.v \o "/" \o ToString(IntOfFloat(number.v)), ok |-> TRUE]
    ELSE [v |-> "", ok |-> FALSE]

\* "%s/%d" of a repository name and int(number), when both were found
ComposedId(repoName, number) ==
    IF repoName.ok /\ number.ok
    THEN [v |-> repoName.v \o "/" \o ToString(IntOfFloat(number.v)), ok |-> TRUE]
    ELSE [v |-> "", ok |-> FALSE]

\* "%d" of int(idNum), when it was found
NumericId(idNum) ==
    IF idNum.ok THEN [v |-> ToString(IntOfFloat(idNum.v)), ok |-> TRUE]
    ELSE [v |-> "", ok |-> FALSE]

\* the switch over eventType
extractFields(eventType, metadata) ==
    CASE eventType = "push" ->
            LET t == LookupMap("string", metadata, <<"head_commit", "timestamp">>)
                i == LookupMap("string", metadata, <<"head_commit", "id">>)
            IN  Extracted(t.v, t.ok, i.v, i.ok, NoError, NoError)
      [] eventType = "pull_request" ->
            LET t == LookupMap("string", metadata, <<"pull_request", "updated_at">>)
                i == ComposedId(LookupMap("string", metadata, <<"repository", "name">>),
                                LookupMap("float64", metadata, <<"number">>))
            IN  Extracted(t.v, t.ok, i.v, i.ok, NoError, NoError)
      [] eventType = "pull_request_review" ->
            LET t == LookupMapE("string", metadata, <<"review", "submitted_at">>)
                n == LookupMapE("float64", metadata, <<"review", "id">>)
                i == NumericId([v |-> n.v, ok |-> n.err = NoError])
            IN  Extracted(t.v, t.err = NoError, i.v, i.ok, t.err, n.err)
      [] eventType = "pull_request_review_comment" ->
            LET t == LookupMap("string", metadata, <<"comment", "updated_at">>)
                i == NumericId(LookupMap("float64", metadata, <<"review", "id">>))
            IN  Extracted(t.v, t.ok, i.v, i.ok, NoError, NoError)
      [] eventType = "issues" ->
            LET t == LookupMap("string", metadata, <<"issue", "updated_at">>)
                i == ComposedId(LookupMap("string", metadata, <<"repository", "name">>),
                                LookupMap("float64", metadata, <<"issue", "number">>))
            IN  Extracted(t.v, t.ok, i.v, i.ok, NoError, NoError)
      [] eventType = "issue_comment" ->
            LET t == LookupMap("string", metadata, <<"comment", "updated_at">>)
                i == LookupMap("string", metadata, <<"comment", "id">>)
            IN  Extracted(t.v, t.ok, i.v, i.ok, NoError, NoError)
      [] eventType = "check_run" ->
            LET t == FirstFound(
                        LookupMap("string", metadata, <<"check_run", "completed_at">>),
                        LookupMap("string", metadata, <<"check_run", "started_at">>))
                i == LookupMap("string", metadata, <<"check_run", "id">>)
            IN  Extracted(t.v, t.ok, i.v, i.ok, NoError, NoError)
      [] eventType = "check_suite" ->
            LET t == FirstFound(
                        LookupMap("string", metadata, <<"check_suite", "updated_at">>),
                        LookupMap("string", metadata, <<"check_suite", "created_at">>))
                i == LookupMap("string", metadata, <<"check_suite", "id">>)
            IN  Extracted(t.v, t.ok, i.v, i.ok, NoError, NoError)
      [] eventType = "deployment_status" ->
            LET t == LookupMap("string", metadata, <<"deployment_status", "updated_at">>)
                i == LookupMap("string", metadata, <<"deployment_status", "id">>)
            IN  Extracted(t.v, t.ok, i.v, i.ok, NoError, NoError)
      [] eventType = "status" ->
            LET t == LookupMap("string", metadata, <<"updated_at">>)
                i == LookupMap("string", metadata, <<"id">>)
            IN  Extracted(t.v, t.ok, i.v, i.ok, NoError, NoError)
      [] eventType = "release" ->
            LET t == FirstFound(
                        LookupMap("string", metadata, <<"release", "published_at">>),
                        LookupMap("string", metadata, <<"release", "created_at">>))
                i == LookupMap("string", metadata, <<"release", "id">>)
            IN  Extracted(t.v, t.ok, i.v, i.ok, NoError, NoError)
      [] OTHER ->
            [maybeTimeCreated |-> "", tOk |-> FALSE, id |-> "", iOk |-> FALSE,
             tErr |-> NoError, iErr |-> NoError, supported |-> FALSE]

\* the four results of processGithubEvent: (event, nil), (nil, nil), (nil, err),
\* or a runtime panic
EventResult(e) == [kind |-> "event", event |-> e, errs |-> <<>>]
SkipResult == [kind |-> "skip", errs |-> <<>>]
ErrorResult(errs) == [kind |-> "error", errs |-> errs]
PanicResult == [kind |-> "panic", errs |-> <<>>]

\* mutant: the first missing cause ends the report
missingErrors_ShortCircuit(x) ==
    IF ~x.tOk
    THEN <<IF x.tErr = NoError THEN [kind |-> "could not find time_created"] ELSE x.tErr>>
    ELSE <<IF x.iErr = NoError THEN [kind |-> "could not find id"] ELSE x.iErr>>

\* errors.Join of what the "if !tOk || !iOk" block appends
missingErrors(x) ==
    (IF ~x.tOk
     THEN <<IF x.tErr = NoError THEN [kind |-> "could not find time_created"] ELSE x.tErr>>
     ELSE <<>>)
    \o
    (IF ~x.iOk
     THEN <<IF x.iErr = NoError THEN [kind |-> "could not find id"] ELSE x.iErr>>
     ELSE <<>>)

\* mutant: the error of time.Parse is dropped and the zero time recorded
processGithubEvent_ParseErrorIgnored(messageId, headers, metadata, rawMetadata) ==
    IF ~HasFirst(headers, "X-Github-Event") THEN PanicResult
    ELSE LET eventType == headers["X-Github-Event"][1]
         IN  IF eventType \notin eventTypes THEN SkipResult
             ELSE IF ~HasFirst(headers, "X-Hub-Signature-256") THEN PanicResult
             ELSE LET signature == headers["X-Hub-Signature-256"][1]
                      source == IF "Mock" \in DOMAIN headers THEN "github_mock" ELSE "github"
                      x == extractFields(eventType, metadata)
                  IN  IF ~x.supported
                      THEN ErrorResult(<<[kind |-> "event type is not supported"]>>)
                      ELSE IF ~x.tOk \/ ~x.iOk THEN ErrorResult(missingErrors(x))
                      ELSE LET parsed == timeParseRFC3339(x.maybeTimeCreated)
                           IN  EventResult(
                                  [EventType   |-> eventType,
                                   Id          |-> x.id,
                                   Metadata    |-> rawMetadata,
                                   TimeCreated |-> parsed.t,
                                   Signature   |-> signature,
                                   MsgId       |-> messageId,
                                   Source      |-> source])

\* mutant: the source is github_mock only if the Mock header has a value
processGithubEvent_MockByValue(messageId, headers, metadata, rawMetadata) ==
    IF ~HasFirst(headers, "X-Github-Event") THEN PanicResult
    ELSE LET eventType == headers["X-Github-Event"][1]
         IN  IF eventType \notin eventTypes THEN SkipResult
             ELSE IF ~HasFirst(headers, "X-Hub-Signature-256") THEN PanicResult
             ELSE LET signature == headers["X-Hub-Signature-256"][1]
                      source == IF HasFirst(headers, "Mock") THEN "github_mock" ELSE "github"
                      x == extractFields(eventType, metadata)
                  IN  IF ~x.supported
                      THEN ErrorResult(<<[kind |-> "event type is not supported"]>>)
                      ELSE IF ~x.tOk \/ ~x.iOk THEN ErrorResult(missingErrors(x))
                      ELSE LET parsed == timeParseRFC3339(x.maybeTimeCreated)
                           IN  IF ~parsed.ok
                               THEN ErrorResult(<<[kind |-> "could not parse time_created"]>>)
                               ELSE EventResult(
                                      [EventType   |-> eventType,
                                       Id          |-> x.id,
                                       Metadata    |-> rawMetadata,
                                       TimeCreated |-> parsed.t,
                                       Signature   |-> signature,
                                       MsgId       |-> messageId,
                                       Source      |-> source])

processGithubEvent(messageId, headers, metadata, rawMetadata) ==
    IF ~HasFirst(headers, "X-Github-Event") THEN PanicResult
    ELSE LET eventType == headers["X-Github-Event"][1]
         IN  IF eventType \notin eventTypes THEN SkipResult
             ELSE IF ~HasFirst(headers, "X-Hub-Signature-256") THEN PanicResult
             ELSE LET signature == headers["X-Hub-Signature-256"][1]
                      source == IF "Mock" \in DOMAIN headers THEN "github_mock" ELSE "github"
                      x == extractFields(eventType, metadata)
                  IN  IF ~x.supported
                      THEN ErrorResult(<<[kind |-> "event type is not supported"]>>)
                      ELSE IF ~x.tOk \/ ~x.iOk THEN ErrorResult(missingErrors(x))
                      ELSE LET parsed == timeParseRFC3339(x.maybeTimeCreated)
                           IN  IF ~parsed.ok
                               THEN ErrorResult(<<[kind |-> "could not parse time_created"]>>)
                               ELSE EventResult(
                                      [EventType   |-> eventType,
                                       Id          |-> x.id,
                                       Metadata    |-> rawMetadata,
                                       TimeCreated |-> parsed.t,
                                       Signature   |-> signature,
                                       MsgId       |-> messageId,
                                       Source      |-> source])

(***************************************************************************)
(* Inputs of the verifier specification.                                   *)
(***************************************************************************)
\* GITHUB_WEBHOOK_SECRET values (mustGetenv refuses the empty one)
Secrets == {"s3cret", "0ther"}

RECURSIVE StringsUpTo(_, _)
StringsUpTo(alphabet, n) ==
    IF n = 0 THEN {""}
    ELSE LET shorter == StringsUpTo(alphabet, n - 1)
         IN  shorter \cup {s \o c : s \in shorter, c \in alphabet}

RawBodies == StringsUpTo({"a", "b"}, MaxBodyLen)

UpperHex(s) ==
    Concat([i \in 1..Len(s) |->
                LET v == fromHexChar(CharAt(s, i))
                IN  IF v > 9 /\ v <= 15 THEN CharAt("ABCDEF", v - 9) ELSE CharAt(s, i)],
           1, Len(s))

HexForms(hex) ==
    { hex,
      UpperHex(hex),
      SubSeq(hex, 1, Len(hex) - 1),
      SubSeq(hex, 1, Len(hex) - 2),
      hex \o "00",
      "g" \o StrFrom(hex, 1),
      SubSeq(hex, 1, Len(hex) - 2) \o "zz" }

SentPrefixes == {"sha256=", "sha1=", "SHA256:"}

SentSignatures ==
    {"", "sha", "sha256", "sha256=", "sha1="}
    \cup { p \o f : p \in SentPrefixes,
                    f \in UNION { HexForms(hexEncodeToString(hmacSum(size, k, b))) :
                                      size \in {Sha256Size, Sha1Size},
                                      k \in Secrets, b \in RawBodies } }

NoVerdict == [fn |-> "none", kind |-> "none", v |-> FALSE]

InitVerify ==
    /\ vin \in [secret : Secrets, signature : SentSignatures, body : RawBodies]
    /\ vout = NoVerdict
    /\ nin = <<>> /\ nout = <<>>
    /\ exchange = <<>> /\ topic = <<>> /\ sink = <<>>
    /\ cin = <<>> /\ cout = <<>> /\ lin = <<>> /\ lout = <<>>

Verify256 ==
    /\ vout.fn = "none"
    /\ LET r == verifyGithubSignature256(vin.secret, vin.signature, vin.body)
       IN  vout' = [fn |-> "sha256", kind |-> r.kind, v |-> r.v]
    /\ UNCHANGED <<vin, nin, nout, exchange, topic, sink, cin, cout, lin, lout>>

VerifySha1 ==
    /\ vout.fn = "none"
    /\ LET r == verifyGithubSignature(vin.secret, vin.signature, vin.body)
       IN  vout' = [fn |-> "sha1", kind |-> r.kind, v |-> r.v]
    /\ UNCHANGED <<vin, nin, nout, exchange, topic, sink, cin, cout, lin, lout>>

NextVerify == Verify256 \/ VerifySha1

SpecVerify == InitVerify /\ [][NextVerify]_vars

(***************************************************************************)
(* Inputs of the normalizer specification: for every event type, every     *)
(* way of filling the fields its rule reads with a timestamp string, a     *)
(* second timestamp string, a string that is no timestamp, the numbers 42, *)
(* 42.5 and -1.5, null, or nothing at all.                                 *)
(***************************************************************************)
TsA == "2024-01-02T03:04:05Z"
TsB == "2023-12-31T23:59:59+09:00"

LeafValues ==
    {JString(TsA), JString(TsB), JString("acme/widgets"),
     JNumber(42000), JNumber(42500), JNumber(-1500), JNull}

FieldOptions ==
    {[p |-> FALSE, v |-> JNull]} \cup {[p |-> TRUE, v |-> l] : l \in LeafValues}

\* the paths the rule of an event type reads (an unrecognized type gets push's)
FieldPaths(eventType) ==
    CASE eventType = "pull_request" ->
            <<<<"pull_request", "updated_at">>, <<"repository", "name">>, <<"number">>>>
      [] eventType = "pull_request_review" ->
            <<<<"review", "submitted_at">>, <<"review", "id">>>>
      [] eventType = "pull_request_review_comment" ->
            <<<<"comment", "updated_at">>, <<"review", "id">>>>
      [] eventType = "issues" ->
            <<<<"issue", "updated_at">>, <<"repository", "name">>, <<"issue", "number">>>>
      [] eventType = "issue_comment" ->
            <<<<"comment", "updated_at">>, <<"comment", "id">>>>
      [] eventType = "check_run" ->
            <<<<"check_run", "completed_at">>, <<"check_run", "started_at">>,
              <<"check_run", "id">>>>
      [] eventType = "check_suite" ->
            <<<<"check_suite", "updated_at">>, <<"check_suite", "created_at">>,
              <<"check_suite", "id">>>>
      [] eventType = "deployment_status" ->
            <<<<"deployment_status", "updated_at">>, <<"deployment_status", "id">>>>
      [] eventType = "status" ->
            <<<<"updated_at">>, <<"id">>>>
      [] eventType = "release" ->
            <<<<"release", "published_at">>, <<"release", "created_at">>,
              <<"release", "id">>>>
      [] OTHER ->
            <<<<"head_commit", "timestamp">>, <<"head_commit", "id">>>>

\* the payload in which path i holds a[i].v when a[i].p; an object none of
\* whose fields is filled is left out, empty or replaced by a string
PayloadOf(paths, a, parentForm) ==
    LET n == Len(paths)
        leafKeys == {paths[i][1] : i \in {j \in 1..n : Len(paths[j]) = 1 /\ a[j].p}}
        parents == {paths[i][1] : i \in {j \in 1..n : Len(paths[j]) = 2}}
        kids(k) == {i \in 1..n : Len(paths[i]) = 2 /\ paths[i][1] = k /\ a[i].p}
        parentKeys == {k \in parents : kids(k) # {} \/ parentForm # "absent"}
        node(k) ==
            IF k \in leafKeys THEN a[CHOOSE i \in 1..n : paths[i] = <<k>>].v
            ELSE IF kids(k) = {}
                 THEN (IF parentForm = "empty" THEN JObject(EmptyMap) ELSE JString("x"))
                 ELSE JObject([c \in {paths[i][2] : i \in kids(k)} |->
                                  a[CHOOSE i \in kids(k) : paths[i][2] = c].v])
    IN  [k \in leafKeys \cup parentKeys |-> node(k)]

Payloads(eventType) ==
    LET paths == FieldPaths(eventType)
    IN  {PayloadOf(paths, a, f) : a \in [1..Len(paths) -> FieldOptions],
                                  f \in {"absent", "empty", "scalar"}}

\* the payload with every field of the rule filled, strings for the timestamps
\* and the copied identifiers
GoodPayload(eventType) ==
    LET paths == FieldPaths(eventType)
    IN  PayloadOf(paths, [i \in 1..Len(paths) |-> [p |-> TRUE, v |-> JString(TsA)]], "absent")

SentEventTypes == eventTypes \cup {"star", ""}

\* envelope headers as the consumer decodes them (map[string][]string)
HeaderMaps(eventType) ==
    LET always == [k \in {"User-Agent"} |-> <<"GitHub-Hookshot/044aadd">>]
        event == {<<>>, <<eventType>>, <<eventType, "star">>}
        sig == {<<>>, <<"sha256=00ff">>}
        put(h, k, v) == [x \in DOMAIN h \cup {k} |-> IF x = k THEN v ELSE h[x]]
        withEvent == {always} \cup {put(always, "X-Github-Event", e) : e \in event}
        withSig == withEvent \cup {put(h, "X-Hub-Signature-256", v) : h \in withEvent, v \in sig}
    IN  withSig \cup {put(h, "Mock", <<"1">>) : h \in withSig}

FullHeaders(eventType, mock) ==
    [k \in {"User-Agent", "X-Github-Event", "X-Hub-Signature-256"}
           \cup (IF mock THEN {"Mock"} ELSE {}) |->
        IF k = "User-Agent" THEN <<"GitHub-Hookshot/044aadd">>
        ELSE IF k = "X-Github-Event" THEN <<eventType>>
        ELSE IF k = "X-Hub-Signature-256" THEN <<"sha256=00ff">>
        ELSE <<"1">>]

NormInput(messageId, headers, metadata, rawMetadata) ==
    [messageId |-> messageId, headers |-> headers, metadata |-> metadata,
     rawMetadata |-> rawMetadata]

NormInputs ==
    UNION { {NormInput("m-1", FullHeaders(e, mock), m, "raw") :
                 m \in Payloads(e), mock \in BOOLEAN}
            \cup {NormInput("m-2", h, GoodPayload(e), "raw") : h \in HeaderMaps(e)}
          : e \in SentEventTypes }

NoResult == [kind |-> "none", errs |-> <<>>]

InitNorm ==
    /\ nin \in NormInputs
    /\ nout = NoResult
    /\ vin = <<>> /\ vout = <<>>
    /\ exchange = <<>> /\ topic = <<>> /\ sink = <<>>
    /\ cin = <<>> /\ cout = <<>> /\ lin = <<>> /\ lout = <<>>

Normalize ==
    /\ nout.kind = "none"
    /\ nout' = processGithubEvent(nin.messageId, nin.headers, nin.metadata,
                                  nin.rawMetadata)
    /\ UNCHANGED <<vin, vout, nin, exchange, topic, sink, cin, cout, lin, lout>>

NextNorm == Normalize

SpecNorm == InitNorm /\ [][NextNorm]_vars

(***************************************************************************)
(* net/http as the two services use it.  A ResponseWriter is the status    *)
(* of its first WriteHeader (0: none yet); a handler that returns without  *)
(* one is answered 200, a handler that panics is answered by nothing: the  *)
(* server recovers and closes the connection.                              *)
(***************************************************************************)
WriteHeader(w, code) == IF w = 0 THEN code ELSE w

\* http.Header.Get and url.Values.Get: the first value of the key, or ""
HeaderGet(header, key) ==
    IF key \in DOMAIN header /\ Len(header[key]) >= 1 THEN header[key][1] ELSE ""

\* what the client receives
Served(wrote, aborted) ==
    IF aborted THEN 0 ELSE IF wrote = 0 THEN 200 ELSE wrote

(***************************************************************************)
(* encoding/json.  A request body is kept as its bytes, and JsonDocuments  *)
(* gives the value each well-formed body of the model decodes to; a JSON   *)
(* text carried inside another document (attributes.headers) is kept as    *)
(* its parse: JsonText(v), or NotJson for a text that does not parse (the  *)
(* empty string is one).                                                   *)
(***************************************************************************)
JsonText(v) == [valid |-> TRUE, v |-> v]
NotJson == [valid |-> FALSE, v |-> JNull]

PushBody == "{\"head_commit\":{\"id\":\"c0ffee\",\"timestamp\":\"2024-01-02T03:04:05Z\"}}"
UndatedBody == "{\"head_commit\":{\"id\":\"c0ffee\"}}"
\* PushBody as another sender writes it: other spacing and key order
SpacedBody == "{ \"head_commit\": {\"timestamp\": \"2024-01-02T03:04:05Z\", \"id\": \"c0ffee\"} }"
ListBody == "[1]"
BrokenBody == "{\"head_commit\":"
MisdatedBody == "{\"head_commit\":{\"id\":\"c0ffee\",\"timestamp\":\"yesterday\"}}"
CheckRunBody == "{\"check_run\":{\"id\":\"7\",\"completed_at\":\"2024-02-30T00:00:00Z\",\"started_at\":\"2024-01-02T03:04:05Z\"}}"

\* documents the navigator specification decodes
IntBody == "{\"int\":1985130}"
NestedBodies ==
    ("{\"a\":{\"b\":{\"c\":\"d\"}}}" :>
        JObject([a |-> JObject([b |-> JObject([c |-> JString("d")])])]))
    @@ ("{\"a\":{\"b\":{\"c\":1.5}}}" :>
        JObject([a |-> JObject([b |-> JObject([c |-> JNumber(1500)])])]))
    @@ ("{\"a\":{\"b\":{\"c\":7}}}" :>
        JObject([a |-> JObject([b |-> JObject([c |-> JNumber(7000)])])]))
    @@ ("{\"a\":{\"b\":{\"c\":true}}}" :>
        JObject([a |-> JObject([b |-> JObject([c |-> JBool(TRUE)])])]))
    @@ ("{\"a\":{\"b\":\"x\",\"c\":null}}" :>
        JObject([a |-> JObject([b |-> JString("x"), c |-> JNull])]))
    @@ ("{\"a\":[\"d\"],\"b\":{}}" :>
        JObject([a |-> JArray(<<JString("d")>>), b |-> JObject(EmptyMap)]))

JsonDocuments ==
    (PushBody :> JObject([head_commit |->
                    JObject([id |-> JString("c0ffee"),
                             timestamp |-> JString("2024-01-02T03:04:05Z")])]))
    @@ (SpacedBody :> JObject([head_commit |->
                    JObject([id |-> JString("c0ffee"),
                             timestamp |-> JString("2024-01-02T03:04:05Z")])]))
    @@ (UndatedBody :> JObject([head_commit |-> JObject([id |-> JString("c0ffee")])]))
    @@ (ListBody :> JArray(<<JNumber(1000)>>))
    @@ (MisdatedBody :> JObject([head_commit |->
                    JObject([id |-> JString("c0ffee"),
                             timestamp |-> JString("yesterday")])]))
    @@ (CheckRunBody :> JObject([check_run |->
                    JObject([id |-> JString("7"),
                             completed_at |-> JString("2024-02-30T00:00:00Z"),
                             started_at |-> JString("2024-01-02T03:04:05Z")])]))
    @@ ("{}" :> JObject(EmptyMap))
    @@ ("null" :> JNull)
    @@ (IntBody :> JObject([int |-> JNumber(1985130000)]))
    @@ NestedBodies

\* json.Unmarshal(data, &v) with v of type any
jsonUnmarshalAny(data) ==
    IF data \in DOMAIN JsonDocuments
    THEN [err |-> FALSE, v |-> JsonDocuments[data]]
    ELSE [err |-> TRUE, v |-> JNull]

\* json.Unmarshal(data, &m) with m a map[string]interface{}: null leaves the
\* nil map, any other non-object is a type error
jsonUnmarshalMap(data) ==
    LET d == jsonUnmarshalAny(data)
    IN  IF d.err THEN [err |-> TRUE, m |-> EmptyMap]
        ELSE IF d.v.t = "map" THEN [err |-> FALSE, m |-> d.v.m]
        ELSE IF d.v.t = "nil" THEN [err |-> FALSE, m |-> EmptyMap]
        ELSE [err |-> TRUE, m |-> EmptyMap]

\* the error of json.Marshal: only for values no decoded document holds
\* (channels, functions, NaN and infinities, cyclic structures)
jsonMarshalError(v) == FALSE

\* json.Marshal of a map[string][]string
jsonMarshalHeaders(header) ==
    JsonText(JObject([k \in DOMAIN header |->
                JArray([i \in 1..Len(header[k]) |-> JString(header[k][i])])]))

\* json.Unmarshal(text, &attrs) with attrs a map[string][]string: null is the
\* nil map, slice or string
jsonUnmarshalHeaders(text) ==
    LET none == [k \in {} |-> <<>>]
        isList(x) == x.t = "nil"
                     \/ (x.t = "array"
                         /\ \A i \in 1..Len(x.a) : x.a[i].t \in {"string", "nil"})
        listOf(x) == IF x.t = "nil" THEN <<>>
                     ELSE [i \in 1..Len(x.a) |->
                             IF x.a[i].t = "string" THEN x.a[i].s ELSE ""]
    IN  IF ~text.valid THEN [err |-> TRUE, attrs |-> none]
        ELSE IF text.v.t = "nil" THEN [err |-> FALSE, attrs |-> none]
        ELSE IF text.v.t # "map" THEN [err |-> TRUE, attrs |-> none]
        ELSE IF \E k \in DOMAIN text.v.m : ~isList(text.v.m[k])
             THEN [err |-> TRUE, attrs |-> none]
        ELSE [err |-> FALSE, attrs |-> [k \in DOMAIN text.v.m |-> listOf(text.v.m[k])]]

(***************************************************************************)
(* event-handler (ingress)                                                 *)
(***************************************************************************)
\* envVars.githubWebhookSecret
githubWebhookSecret == "s3cret"

authorizedSources ==
    [github |-> [name |-> "github",
                 signature |-> "X-Hub-Signature-256",
                 verification |-> "verifyGithubSignature256"]]

\* the call through eventSource.verification
Verification(fn, signature, body) ==
    IF fn = "verifyGithubSignature256"
    THEN verifyGithubSignature256(githubWebhookSecret, signature, body)
    ELSE verifyGithubSignature(githubWebhookSecret, signature, body)

\* mutant: the User-Agent rule is tried before the X-Gitlab-Event rule
getSource_AgentFirst(header) ==
    IF "User-Agent" \in DOMAIN header
       /\ StrContains(HeaderGet(header, "User-Agent"), "GitHub-Hookshot") THEN "github"
    ELSE IF "X-Gitlab-Event" \in DOMAIN header THEN "gitlab"
    ELSE IF "Ce-Type" \in DOMAIN header
            /\ StrContains(HeaderGet(header, "Ce-Type"), "tekton") THEN "tekton"
    ELSE IF "Circleci-Event-Type" \in DOMAIN header THEN "circleci"
    ELSE IF "X-Pagerduty-Signature" \in DOMAIN header THEN "pagerduty"
    ELSE HeaderGet(header, "User-Agent")

getSource(header) ==
    IF "X-Gitlab-Event" \in DOMAIN header THEN "gitlab"
    ELSE IF "Ce-Type" \in DOMAIN header
            /\ StrContains(HeaderGet(header, "Ce-Type"), "tekton") THEN "tekton"
    ELSE IF "User-Agent" \in DOMAIN header
            /\ StrContains(HeaderGet(header, "User-Agent"), "GitHub-Hookshot") THEN "github"
    ELSE IF "Circleci-Event-Type" \in DOMAIN header THEN "circleci"
    ELSE IF "X-Pagerduty-Signature" \in DOMAIN header THEN "pagerduty"
    ELSE HeaderGet(header, "User-Agent")

\* net is what the Pub/Sub service does with this call: "ok", "no client"
\* (NewClient fails) or "publish fails"; msgs is what reaches the topic
publishToPubsub(net, source, header, body) ==
    IF net = "no client" THEN [err |-> TRUE, msgs |-> <<>>]
    ELSE IF jsonUnmarshalAny(body).err THEN [err |-> TRUE, msgs |-> <<>>]
    ELSE IF net = "publish fails" THEN [err |-> TRUE, msgs |-> <<>>]
    ELSE [err |-> FALSE,
          msgs |-> <<[topic |-> source.name,
                      Data |-> body,
                      Attributes |-> [headers |-> jsonMarshalHeaders(header)]]>>]

IngressReply(wrote, aborted, msgs) ==
    [wrote |-> wrote, aborted |-> aborted, msgs |-> msgs]

\* mutant: the Authorization header is republished with the others
ingressIndexPost_AuthorizationKept(r, net) ==
    LET source == getSource(r.header)
    IN  IF source \notin DOMAIN authorizedSources
        THEN IngressReply(WriteHeader(0, 403), FALSE, <<>>)
        ELSE
        LET authSource == authorizedSources[source]
            q == HeaderGet(r.query, authSource.signature)
            h == HeaderGet(r.header, authSource.signature)
            signature == IF q # "" THEN q ELSE h
            \* no signature anywhere: the status is written and the handler goes on
            w1 == IF q = "" /\ h = "" THEN WriteHeader(0, 403) ELSE 0
        IN  IF ~r.readable THEN IngressReply(WriteHeader(w1, 400), FALSE, <<>>)
            ELSE
            LET verdict == Verification(authSource.verification, signature, r.body)
            IN  IF verdict.kind = "panic" THEN IngressReply(w1, TRUE, <<>>)
                ELSE IF ~verdict.v THEN IngressReply(WriteHeader(w1, 403), FALSE, <<>>)
                ELSE
                LET pubsubHeaders ==
                        [k \in DOMAIN r.header |-> r.header[k]]
                    pub == publishToPubsub(net, authSource, pubsubHeaders, r.body)
                IN  IngressReply(WriteHeader(w1, 204), FALSE, pub.msgs)

\* mutant: a failed republish is answered 500
ingressIndexPost_FailureReported(r, net) ==
    LET source == getSource(r.header)
    IN  IF source \notin DOMAIN authorizedSources
        THEN IngressReply(WriteHeader(0, 403), FALSE, <<>>)
        ELSE
        LET authSource == authorizedSources[source]
            q == HeaderGet(r.query, authSource.signature)
            h == HeaderGet(r.header, authSource.signature)
            signature == IF q # "" THEN q ELSE h
            \* no signature anywhere: the status is written and the handler goes on
            w1 == IF q = "" /\ h = "" THEN WriteHeader(0, 403) ELSE 0
        IN  IF ~r.readable THEN IngressReply(WriteHeader(w1, 400), FALSE, <<>>)
            ELSE
            LET verdict == Verification(authSource.verification, signature, r.body)
            IN  IF verdict.kind = "panic" THEN IngressReply(w1, TRUE, <<>>)
                ELSE IF ~verdict.v THEN IngressReply(WriteHeader(w1, 403), FALSE, <<>>)
                ELSE
                LET pubsubHeaders ==
                        [k \in DOMAIN r.header \ {"Authorization"} |-> r.header[k]]
                    pub == publishToPubsub(net, authSource, pubsubHeaders, r.body)
                IN  IF pub.err THEN IngressReply(WriteHeader(w1, 500), FALSE, pub.msgs)
                    ELSE IngressReply(WriteHeader(w1, 204), FALSE, pub.msgs)

ingressIndexPost(r, net) ==
    LET source == getSource(r.header)
    IN  IF source \notin DOMAIN authorizedSources
        THEN IngressReply(WriteHeader(0, 403), FALSE, <<>>)
        ELSE
        LET authSource == authorizedSources[source]
            q == HeaderGet(r.query, authSource.signature)
            h == HeaderGet(r.header, authSource.signature)
            signature == IF q # "" THEN q ELSE h
            \* no signature anywhere: the status is written and the handler goes on
            w1 == IF q = "" /\ h = "" THEN WriteHeader(0, 403) ELSE 0
        IN  IF ~r.readable THEN IngressReply(WriteHeader(w1, 400), FALSE, <<>>)
            ELSE
            LET verdict == Verification(authSource.verification, signature, r.body)
            IN  IF verdict.kind = "panic" THEN IngressReply(w1, TRUE, <<>>)
                ELSE IF ~verdict.v THEN IngressReply(WriteHeader(w1, 403), FALSE, <<>>)
                ELSE
                LET pubsubHeaders ==
                        [k \in DOMAIN r.header \ {"Authorization"} |-> r.header[k]]
                    pub == publishToPubsub(net, authSource, pubsubHeaders, r.body)
                IN  IngressReply(WriteHeader(w1, 204), FALSE, pub.msgs)

ingressIndex(r, net) ==
    IF r.method = "POST" THEN ingressIndexPost(r, net)
    ELSE IngressReply(WriteHeader(0, 404), FALSE, <<>>)

(***************************************************************************)
(* Inputs of the classifier specification: header sets over the headers    *)
(* getSource reads, each absent, present with no value, or present with    *)
(* one or two values.                                                      *)
(***************************************************************************)
ClassifierHeaders ==
    ("X-Gitlab-Event" :> {<<"Push Hook">>})
    @@ ("Ce-Type" :> {<<>>, <<"dev.tekton.event.taskrun.started.v1">>,
                      <<"com.example.build">>,
                      <<"com.example.build", "dev.tekton.event.taskrun.started.v1">>})
    @@ ("User-Agent" :> {<<>>, <<"GitHub-Hookshot/044aadd">>, <<"curl/8.5.0">>,
                         <<"curl/8.5.0", "GitHub-Hookshot/044aadd">>})
    @@ ("Circleci-Event-Type" :> {<<"workflow-completed">>})
    @@ ("X-Pagerduty-Signature" :> {<<"v1=00ff">>})

\* every choice of some of the headers and of a value list for each
HeaderSets ==
    UNION { {h \in [keys -> UNION {ClassifierHeaders[k] : k \in keys}] :
                 \A k \in keys : h[k] \in ClassifierHeaders[k]}
          : keys \in SUBSET DOMAIN ClassifierHeaders }

NoSource == [fn |-> "none", source |-> ""]

InitSource ==
    /\ cin \in HeaderSets
    /\ cout = NoSource
    /\ vin = <<>> /\ vout = <<>> /\ nin = <<>> /\ nout = <<>>
    /\ exchange = <<>> /\ topic = <<>> /\ sink = <<>>
    /\ lin = <<>> /\ lout = <<>>

Classify ==
    /\ cout.fn = "none"
    /\ cout' = [fn |-> "getSource", source |-> getSource(cin)]
    /\ UNCHANGED <<vin, vout, nin, nout, exchange, topic, sink, cin, lin, lout>>

NextSource == Classify

SpecSource == InitSource /\ [][NextSource]_vars

(***************************************************************************)
(* Inputs of the navigator specification: the trees of the repository's    *)
(* own examples (Go literals) and trees decoded from JSON, with every key  *)
(* path up to MaxPathLen over the keys of the tree and a key it lacks, and *)
(* every requested type.                                                   *)
(***************************************************************************)
\* the map of TestLookupMapE
TestTree ==
    [key1 |-> JObject([key2 |-> JString("value"),
                       key4 |-> JObject([key5 |-> GoInt(5)])]),
     key3 |-> JString("value3"),
     int |-> GoInt(1985130141)]

\* the map of lookupNested
NestedTree == [a |-> JObject([b |-> JObject([c |-> JString("d")])])]

RequestedTypes == {"string", "float64", "int", "bool"}

\* the keys that occur in a tree
RECURSIVE KeysOf(_)
KeysOf(val) ==
    IF val.t = "map"
    THEN DOMAIN val.m \cup UNION {KeysOf(val.m[k]) : k \in DOMAIN val.m}
    ELSE {}

PathsOver(keys) == UNION {[1..n -> keys] : n \in 0..MaxPathLen}

LookupInputsOf(origin, m) ==
    [origin : {origin}, T : RequestedTypes, m : {m},
     keys : PathsOver(KeysOf(JObject(m)) \cup {"missing"})]

LookupInputs ==
    LookupInputsOf("literal", TestTree)
    \cup LookupInputsOf("literal", NestedTree)
    \cup UNION {LookupInputsOf("json", jsonUnmarshalMap(doc).m) :
                  doc \in {IntBody} \cup DOMAIN NestedBodies}

NoLookup == [fn |-> "none"]

InitLookup ==
    /\ lin \in LookupInputs
    /\ lout = NoLookup
    /\ vin = <<>> /\ vout = <<>> /\ nin = <<>> /\ nout = <<>>
    /\ exchange = <<>> /\ topic = <<>> /\ sink = <<>>
    /\ cin = <<>> /\ cout = <<>>

Lookup ==
    /\ lout.fn = "none"
    /\ \E r \in {LookupMap(lin.T, lin.m, lin.keys)} :
          lout' = [fn |-> "LookupMap", v |-> r.v, ok |-> r.ok]
    /\ UNCHANGED <<vin, vout, nin, nout, exchange, topic, sink, cin, cout, lin>>

LookupE ==
    /\ lout.fn = "none"
    /\ \E r \in {LookupMapE(lin.T, lin.m, lin.keys)} :
          lout' = [fn |-> "LookupMapE", v |-> r.v, err |-> r.err,
                   text |-> errorText(r.err)]
    /\ UNCHANGED <<vin, vout, nin, nout, exchange, topic, sink, cin, cout, lin>>

NextLookup == Lookup \/ LookupE

SpecLookup == InitLookup /\ [][NextLookup]_vars

(***************************************************************************)
(* github-parser (consumer)                                                *)
(***************************************************************************)
\* a struct field of type string: absent and null leave ""
stringField(obj, name) ==
    IF name \notin DOMAIN obj \/ obj[name].t = "nil" THEN [err |-> FALSE, s |-> ""]
    ELSE IF obj[name].t = "string" THEN [err |-> FALSE, s |-> obj[name].s]
    ELSE [err |-> TRUE, s |-> ""]

\* a struct field of struct type: absent and null leave the zero struct
structField(obj, name) ==
    IF name \notin DOMAIN obj \/ obj[name].t = "nil" THEN [err |-> FALSE, m |-> EmptyMap]
    ELSE IF obj[name].t = "map" THEN [err |-> FALSE, m |-> obj[name].m]
    ELSE [err |-> TRUE, m |-> EmptyMap]

\* the time.Time field: a JSON string in RFC 3339
timeField(obj, name) ==
    IF name \notin DOMAIN obj \/ obj[name].t = "nil" THEN [err |-> FALSE, t |-> ZeroTime]
    ELSE IF obj[name].t = "string" /\ timeParseRFC3339(obj[name].s).ok
         THEN [err |-> FALSE, t |-> timeParseRFC3339(obj[name].s).t]
    ELSE [err |-> TRUE, t |-> ZeroTime]

\* attributes.headers holds a JSON text
textField(obj, name) ==
    IF name \notin DOMAIN obj \/ obj[name].t = "nil" THEN [err |-> FALSE, text |-> NotJson]
    ELSE IF obj[name].t = "string" THEN [err |-> FALSE, text |-> obj[name].s]
    ELSE [err |-> TRUE, text |-> NotJson]

\* json.Unmarshal(body, &msg) with msg a pubsubRequest
pubsubRequest(doc) ==
    LET zero == [err |-> FALSE, MessageId |-> "", PublishTime |-> ZeroTime,
                 Data |-> "", Headers |-> NotJson, Subscription |-> ""]
        bad == [zero EXCEPT !.err = TRUE]
    IN  IF ~doc.valid THEN bad
        ELSE IF doc.v.t = "nil" THEN zero
        ELSE IF doc.v.t # "map" THEN bad
        ELSE
        LET message == structField(doc.v.m, "message")
            attributes == structField(message.m, "attributes")
            messageId == stringField(message.m, "messageId")
            publishTime == timeField(message.m, "publishTime")
            data == stringField(message.m, "data")
            headers == textField(attributes.m, "headers")
            subscription == stringField(doc.v.m, "subscription")
        IN  IF message.err \/ attributes.err \/ messageId.err \/ publishTime.err
               \/ data.err \/ headers.err \/ subscription.err
            THEN bad
            ELSE [err |-> FALSE, MessageId |-> messageId.s, PublishTime |-> publishTime.t,
                  Data |-> data.s, Headers |-> headers.text,
                  Subscription |-> subscription.s]

\* sinkUp: whether BigQuery takes the row
insertIntoBigQuery(sinkUp, event) ==
    IF sinkUp THEN [err |-> FALSE, rows |-> <<event>>] ELSE [err |-> TRUE, rows |-> <<>>]

\* call: the arguments processGithubEvent was invoked with, if it was
NoCall == [made |-> FALSE]
Call(messageId, headers, metadata, rawMetadata) ==
    [made |-> TRUE, messageId |-> messageId, headers |-> headers,
     metadata |-> metadata, rawMetadata |-> rawMetadata]

ParserReply(wrote, aborted, call, outcome, rows) ==
    [wrote |-> wrote, aborted |-> aborted, call |-> call,
     outcome |-> outcome, rows |-> rows]

\* mutant: the error of decoding attributes.headers is not checked
parserIndexPost_HeadersUnchecked(r, sinkUp) ==
    LET undispatched(code) == ParserReply(WriteHeader(0, code), FALSE, NoCall, NoResult, <<>>)
    IN  IF ~r.readable THEN undispatched(500)
        ELSE With(pubsubRequest(r.body), LAMBDA msg :
        IF msg.err THEN undispatched(500)
        ELSE With(jsonUnmarshalHeaders(msg.Headers), LAMBDA attrs :
        With(base64DecodeString(msg.Data), LAMBDA data :
        IF data.err THEN undispatched(500)
        ELSE With(jsonUnmarshalMap(data.bytes), LAMBDA metadata :
        IF metadata.err THEN undispatched(500)
        ELSE IF jsonMarshalError(attrs.attrs) THEN undispatched(500)
        ELSE IF jsonMarshalError(metadata.m) THEN undispatched(500)
        ELSE With(Call(msg.MessageId, attrs.attrs, metadata.m, data.bytes), LAMBDA call :
             With(processGithubEvent(call.messageId, call.headers, call.metadata,
                                     call.rawMetadata),
                  LAMBDA res :
        IF res.kind = "panic" THEN ParserReply(0, TRUE, call, res, <<>>)
        ELSE IF res.kind = "error"
        THEN ParserReply(WriteHeader(0, 200), FALSE, call, res, <<>>)
        ELSE IF res.kind = "event"
        THEN ParserReply(WriteHeader(0, 200), FALSE, call, res,
                         insertIntoBigQuery(sinkUp, res.event).rows)
        ELSE ParserReply(WriteHeader(0, 200), FALSE, call, res, <<>>)))))))

\* mutant: the earlier handler, which answers 500 when the normalizer or the
\* insertion fails
parserIndexPost_Older(r, sinkUp) ==
    LET undispatched(code) == ParserReply(WriteHeader(0, code), FALSE, NoCall, NoResult, <<>>)
    IN  IF ~r.readable THEN undispatched(500)
        ELSE With(pubsubRequest(r.body), LAMBDA msg :
        IF msg.err THEN undispatched(500)
        ELSE With(jsonUnmarshalHeaders(msg.Headers), LAMBDA attrs :
        IF attrs.err THEN undispatched(500)
        ELSE With(base64DecodeString(msg.Data), LAMBDA data :
        IF data.err THEN undispatched(500)
        ELSE With(jsonUnmarshalMap(data.bytes), LAMBDA metadata :
        IF metadata.err THEN undispatched(500)
        ELSE IF jsonMarshalError(attrs.attrs) THEN undispatched(500)
        ELSE IF jsonMarshalError(metadata.m) THEN undispatched(500)
        ELSE With(Call(msg.MessageId, attrs.attrs, metadata.m, data.bytes), LAMBDA call :
             With(processGithubEvent(call.messageId, call.headers, call.metadata,
                                     call.rawMetadata),
                  LAMBDA res :
        IF res.kind = "panic" THEN ParserReply(0, TRUE, call, res, <<>>)
        ELSE IF res.kind = "error"
        THEN ParserReply(WriteHeader(0, 500), FALSE, call, res, <<>>)
        ELSE IF res.kind = "event"
        THEN ParserReply(WriteHeader(0, IF insertIntoBigQuery(sinkUp, res.event).err
                                        THEN 500 ELSE 200),
                         FALSE, call, res,
                         insertIntoBigQuery(sinkUp, res.event).rows)
        ELSE ParserReply(WriteHeader(0, 200), FALSE, call, res, <<>>)))))))

parserIndexPost(r, sinkUp) ==
    LET undispatched(code) == ParserReply(WriteHeader(0, code), FALSE, NoCall, NoResult, <<>>)
    IN  IF ~r.readable THEN undispatched(500)
        ELSE With(pubsubRequest(r.body), LAMBDA msg :
        IF msg.err THEN undispatched(500)
        ELSE With(jsonUnmarshalHeaders(msg.Headers), LAMBDA attrs :
        IF attrs.err THEN undispatched(500)
        ELSE With(base64DecodeString(msg.Data), LAMBDA data :
        IF data.err THEN undispatched(500)
        ELSE With(jsonUnmarshalMap(data.bytes), LAMBDA metadata :
        IF metadata.err THEN undispatched(500)
        ELSE IF jsonMarshalError(attrs.attrs) THEN undispatched(500)
        ELSE IF jsonMarshalError(metadata.m) THEN undispatched(500)
        ELSE With(Call(msg.MessageId, attrs.attrs, metadata.m, data.bytes), LAMBDA call :
             With(processGithubEvent(call.messageId, call.headers, call.metadata,
                                     call.rawMetadata),
                  LAMBDA res :
        IF res.kind = "panic" THEN ParserReply(0, TRUE, call, res, <<>>)
        ELSE IF res.kind = "error"
        THEN ParserReply(WriteHeader(0, 200), FALSE, call, res, <<>>)
        ELSE IF res.kind = "event"
        THEN ParserReply(WriteHeader(0, 200), FALSE, call, res,
                         insertIntoBigQuery(sinkUp, res.event).rows)
        ELSE ParserReply(WriteHeader(0, 200), FALSE, call, res, <<>>)))))))

parserIndex(r, sinkUp) ==
    IF r.method \in {"POST", "GET"} THEN parserIndexPost(r, sinkUp)
    ELSE ParserReply(WriteHeader(0, 404), FALSE, NoCall, NoResult, <<>>)

(***************************************************************************)
(* The deployment: clients post webhooks to the event-handler, which       *)
(* publishes to the topic; the push subscription posts every message of    *)
(* the topic to the github-parser until it is acknowledged; the parser     *)
(* writes rows to the sink.  Anybody can also post to the parser.          *)
(* exchange is the last request served and what was answered.              *)
(***************************************************************************)
NoHeaders == [k \in {} |-> <<>>]

GenuineAgent == "GitHub-Hookshot/044aadd"

SignatureOf(body) ==
    signaturePrefix \o hexEncodeToString(hmacSum(Sha256Size, githubWebhookSecret, body))

\* a genuine GitHub push delivery, and the respects in which a request varies
Genuine ==
    [method |-> "POST", agent |-> GenuineAgent, extra |-> "none", place |-> "header",
     sig |-> "good", event |-> "push", body |-> PushBody, readable |-> TRUE]

Variations ==
    [method : {"POST", "GET"},
     agent : {GenuineAgent, "curl/8.5.0"},
     extra : {"none", "X-Gitlab-Event", "Authorization"},
     place : {"header", "query", "none"},
     sig : {"good", "stale", "short", "nothex"},
     event : {"push", "star", "none"},
     body : {PushBody, UndatedBody, MisdatedBody, BrokenBody},
     readable : BOOLEAN]

SentSignature(c) ==
    CASE c.sig = "good" -> SignatureOf(c.body)
      [] c.sig = "stale" -> SignatureOf("{}")
      [] c.sig = "short" -> "sha1"
      [] OTHER -> "sha256=zz"

RequestOf(c) ==
    [method |-> c.method,
     header |-> ("User-Agent" :> <<c.agent>>)
                @@ (IF c.event = "none" THEN NoHeaders
                    ELSE "X-Github-Event" :> <<c.event>>)
                @@ (IF c.place = "header"
                    THEN "X-Hub-Signature-256" :> <<SentSignature(c)>>
                    ELSE NoHeaders)
                @@ (CASE c.extra = "X-Gitlab-Event" -> "X-Gitlab-Event" :> <<"Push Hook">>
                      [] c.extra = "Authorization" -> "Authorization" :> <<"Bearer t0ken">>
                      [] OTHER -> NoHeaders),
     query |-> IF c.place = "query"
               THEN "X-Hub-Signature-256" :> <<SentSignature(c)>>
               ELSE NoHeaders,
     body |-> c.body,
     readable |-> c.readable]

\* the genuine delivery, every request that differs from it in one respect,
\* and some that differ in two
IngressRequests ==
    {RequestOf(c) : c \in
        {v \in Variations :
            \E f \in DOMAIN Genuine : \A g \in DOMAIN Genuine \ {f} : v[g] = Genuine[g]}
        \cup {[Genuine EXCEPT !.place = "none", !.readable = FALSE],
              [Genuine EXCEPT !.place = "query", !.sig = "short"],
              [Genuine EXCEPT !.place = "query", !.event = "star"]}}

PubsubWeather == {"ok", "no client", "publish fails"}

\* the handler's answers to the requests of the model
IngressReplies ==
    [r \in IngressRequests |-> [net \in PubsubWeather |-> ingressIndex(r, net)]]

\* Pub/Sub names a message when it takes it: the least name not in the topic
MessageIdFor(t) ==
    "m" \o ToString(CHOOSE n \in 1..(Len(t) + 1) :
                       /\ \A i \in 1..Len(t) : t[i].id # "m" \o ToString(n)
                       /\ \A k \in 1..(n - 1) : \E i \in 1..Len(t) : t[i].id = "m" \o ToString(k))

Stored(t, msg) == [id |-> MessageIdFor(t), topic |-> msg.topic, Data |-> msg.Data,
                   Attributes |-> msg.Attributes]

\* the body a push subscription posts for a message of the topic
Envelope(messageId, publishTime, data, headersText) ==
    JsonText(JObject(
        [message |-> JObject([messageId |-> JString(messageId),
                              publishTime |-> JString(publishTime),
                              data |-> JString(data),
                              attributes |-> JObject([headers |-> JString(headersText)])]),
         subscription |-> JString("projects/p/subscriptions/github")]))

PushRequest(m) ==
    [method |-> "POST", readable |-> TRUE,
     body |-> Envelope(m.id, "2024-01-02T03:04:06.789Z",
                       base64EncodeToString(m.Data), m.Attributes.headers)]

\* 102, 200, 201, 202 and 204 acknowledge a pushed message
Acknowledges(status) == status \in {102, 200, 201, 202, 204}

RemoveAt(s, i) == SubSeq(s, 1, i - 1) \o SubSeq(s, i + 1, Len(s))

HeadersText(event, signed) ==
    jsonMarshalHeaders(
        (IF event = "none" THEN NoHeaders ELSE "X-Github-Event" :> <<event>>)
        @@ (IF signed THEN "X-Hub-Signature-256" :> <<SignatureOf(PushBody)>>
            ELSE NoHeaders))

\* requests posted to the parser by somebody else than the subscription
CraftedRequests ==
    LET post(doc) == [method |-> "POST", readable |-> TRUE, body |-> doc]
        env(data, text) == Envelope("m1", "2024-01-02T03:04:06Z", data, text)
        good == base64EncodeToString(PushBody)
    IN  {[method |-> "POST", readable |-> FALSE, body |-> NotJson],
         [method |-> "PUT", readable |-> TRUE, body |-> env(good, HeadersText("push", TRUE))],
         post(NotJson),
         post(JsonText(JArray(<<>>))),
         post(JsonText(JNull)),
         post(JsonText(JObject([message |-> JObject([data |-> JString(good)])]))),
         post(Envelope("m1", "yesterday", good, HeadersText("push", TRUE))),
         post(env(good, NotJson)),
         post(env(good, JsonText(JNull))),
         post(env(good, JsonText(JString("X-Github-Event: push")))),
         post(env(good, JsonText(JObject([Mock |-> JString("1")])))),
         post(env("e30", HeadersText("push", TRUE))),
         post(env(base64EncodeToString(ListBody), HeadersText("star", FALSE))),
         post(env(base64EncodeToString(BrokenBody), HeadersText("star", FALSE))),
         post(env(base64EncodeToString("null"), HeadersText("star", FALSE))),
         post(env(base64EncodeToString(UndatedBody), HeadersText("star", FALSE))),
         post(env(good, HeadersText("push", FALSE))),
         post(env(good, HeadersText("push", TRUE))),
         post(env(good, jsonMarshalHeaders(
                 ("X-Github-Event" :> <<"push">>)
                 @@ ("X-Hub-Signature-256" :> <<SignatureOf(PushBody)>>)
                 @@ ("Mock" :> <<"1">>)))),
         post(env(base64EncodeToString(SpacedBody),
                  JsonText(JObject(
                     ("X-Github-Event" :> JArray(<<JString("push"), JString("star")>>))
                     @@ ("X-Hub-Signature-256" :>
                            JArray(<<JString("sha256=00ff"), JString("sha1=00")>>))
                     @@ ("Mock" :> JNull))))),
         post(env(base64EncodeToString(CheckRunBody), HeadersText("check_run", TRUE))),
         post(env(good, HeadersText("none", TRUE)))}

CraftedReplies ==
    [r \in CraftedRequests |-> [sinkUp \in BOOLEAN |-> parserIndex(r, sinkUp)]]

\* the messages the topic can hold: what the ingress publishes, named by Pub/Sub
TopicMessages ==
    {[id |-> "m" \o ToString(n), topic |-> msg.topic, Data |-> msg.Data,
      Attributes |-> msg.Attributes] :
        n \in 1..MaxTopic,
        msg \in UNION {{IngressReplies[r][net].msgs[i] :
                            i \in 1..Len(IngressReplies[r][net].msgs)} :
                        r \in IngressRequests, net \in PubsubWeather}}

\* the handler's answers to the pushes of those messages
PushReplies ==
    [m \in TopicMessages |-> [sinkUp \in BOOLEAN |-> parserIndex(PushRequest(m), sinkUp)]]

NoExchange == [svc |-> "none"]

\* status 0: the connection was closed without a response
IngressExchange(r, net, reply) ==
    [svc |-> "event-handler", req |-> r, net |-> net,
     status |-> Served(reply.wrote, reply.aborted),
     published |-> reply.msgs]

ParserExchange(via, r, sinkUp, reply) ==
    [svc |-> "github-parser", via |-> via, req |-> r, sinkUp |-> sinkUp,
     status |-> Served(reply.wrote, reply.aborted),
     call |-> reply.call,
     outcome |-> reply.outcome,
     inserted |-> reply.rows]

Init ==
    /\ exchange = NoExchange
    /\ topic = <<>>
    /\ sink = <<>>
    /\ vin = <<>> /\ vout = <<>> /\ nin = <<>> /\ nout = <<>>
    /\ cin = <<>> /\ cout = <<>> /\ lin = <<>> /\ lout = <<>>

\* a client posts to the event-handler
IngressPost ==
    /\ Len(topic) < MaxTopic
    /\ \E r \in IngressRequests, net \in PubsubWeather :
          \E reply \in {IngressReplies[r][net]} :
              /\ exchange' = IngressExchange(r, net, reply)
              /\ topic' = topic \o [i \in 1..Len(reply.msgs) |-> Stored(topic, reply.msgs[i])]
    /\ UNCHANGED <<vin, vout, nin, nout, sink, cin, cout, lin, lout>>

\* the subscription pushes a message of the topic to the parser
PushDelivery ==
    /\ \E i \in 1..Len(topic), sinkUp \in BOOLEAN :
          \E r \in {PushRequest(topic[i])} :
          \E reply \in {PushReplies[topic[i]][sinkUp]} :
              /\ Len(sink) + Len(reply.rows) <= MaxSink
              /\ exchange' = ParserExchange("push", r, sinkUp, reply)
              /\ sink' = sink \o reply.rows
              /\ topic' = IF Acknowledges(Served(reply.wrote, reply.aborted))
                          THEN RemoveAt(topic, i)
                          ELSE topic
    /\ UNCHANGED <<vin, vout, nin, nout, cin, cout, lin, lout>>

\* somebody else posts to the parser
DirectPost ==
    /\ \E r \in CraftedRequests, sinkUp \in BOOLEAN :
          \E reply \in {CraftedReplies[r][sinkUp]} :
              /\ Len(sink) + Len(reply.rows) <= MaxSink
              /\ exchange' = ParserExchange("direct", r, sinkUp, reply)
              /\ sink' = sink \o reply.rows
    /\ UNCHANGED <<vin, vout, nin, nout, topic, cin, cout, lin, lout>>

Next == IngressPost \/ PushDelivery \/ DirectPost

Spec == Init /\ [][Next]_vars

(***************************************************************************)
(* Claims about the signature verifiers (SpecVerify).                      *)
(***************************************************************************)
IsHexString(s) == \A i \in 1..Len(s) : fromHexChar(CharAt(s, i)) <= 15

LowerHex(s) ==
    Concat([i \in 1..Len(s) |->
                LET v == fromHexChar(CharAt(s, i))
                IN  IF v <= 15 THEN CharAt(hextable, v + 1) ELSE CharAt(s, i)],
           1, Len(s))

\* a header value that is not <prefix><2*size hex digits>
Malformed(sig, prefix, size) ==
    ~ /\ Len(sig) = Len(prefix) + 2 * size
      /\ SubSeq(sig, 1, Len(prefix)) = prefix
      /\ IsHexString(StrFrom(sig, Len(prefix)))

Accepted == vout.kind = "ret" /\ vout.v

Rejected == vout.kind = "ret" /\ ~vout.v

\* C2 (as claimed): every malformed signature header value (empty, shorter
\* than the scheme prefix, of the wrong length, with a suffix that is not
\* hex) makes the verifier return false; it never panics.
C2_MalformedReturnsFalse ==
    /\ (vout.fn = "sha256" /\ Malformed(vin.signature, "sha256=", Sha256Size))
          => Rejected
    /\ (vout.fn = "sha1" /\ Malformed(vin.signature, "sha1=", Sha1Size))
          => Rejected

\* C3 (as claimed): the SHA-256 verifier accepts a header value exactly when
\* it is the scheme prefix followed by the (lower-case) hex encoding of the
\* HMAC of the raw body under the configured secret.
C3_AcceptsExactlyPrefixedHex ==
    vout.fn = "sha256" =>
        (Accepted <=>
            vin.signature = "sha256=" \o
                hexEncodeToString(hmacSum(Sha256Size, vin.secret, vin.body)))

\* C3 (amended): the SHA-256 verifier accepts a header value exactly when the
\* value has at least seven characters and what follows the first seven
\* (which are dropped without being compared with "sha256=") is, in either
\* letter case, the hex encoding of the HMAC of the raw body under the
\* configured secret; every other value of at least seven characters
\* (another body, another secret, a suffix that is not hex) is rejected.
C3_AcceptsHexOfMacAfterSevenChars ==
    vout.fn = "sha256" =>
        LET long == Len(vin.signature) >= 7
            good == /\ long
                    /\ LowerHex(StrFrom(vin.signature, 7)) =
                         hexEncodeToString(hmacSum(Sha256Size, vin.secret, vin.body))
        IN  /\ Accepted <=> good
            /\ (long /\ ~good) => Rejected

\* C3 witness: the correctly computed signature of a non-empty body was accepted
C3_Witness ==
    /\ vout.fn = "sha256" /\ Accepted
    /\ vin.body # ""
    /\ vin.signature = "sha256=" \o
           hexEncodeToString(hmacSum(Sha256Size, vin.secret, vin.body))

(***************************************************************************)
(* Claims about the normalizer (SpecNorm).  The rules are restated here    *)
(* from the documented field layout and read the payload directly.         *)
(***************************************************************************)
\* the value a path leads to, key by key, if every key is there
FieldAt(m, path) ==
    IF Len(path) = 1
    THEN IF path[1] \in DOMAIN m THEN [p |-> TRUE, v |-> m[path[1]]]
         ELSE [p |-> FALSE, v |-> JNull]
    ELSE IF path[1] \in DOMAIN m /\ m[path[1]].t = "map" /\ path[2] \in DOMAIN m[path[1]].m
         THEN [p |-> TRUE, v |-> m[path[1]].m[path[2]]]
         ELSE [p |-> FALSE, v |-> JNull]

IsStringAt(m, path) == FieldAt(m, path).p /\ FieldAt(m, path).v.t = "string"
IsNumberAt(m, path) == FieldAt(m, path).p /\ FieldAt(m, path).v.t = "float64"

\* timestamp candidates of a type, in priority order
RuleTimestamps(e) ==
    CASE e = "push" -> <<<<"head_commit", "timestamp">>>>
      [] e = "pull_request" -> <<<<"pull_request", "updated_at">>>>
      [] e = "pull_request_review" -> <<<<"review", "submitted_at">>>>
      [] e = "pull_request_review_comment" -> <<<<"comment", "updated_at">>>>
      [] e = "issues" -> <<<<"issue", "updated_at">>>>
      [] e = "issue_comment" -> <<<<"comment", "updated_at">>>>
      [] e = "check_run" -> <<<<"check_run", "completed_at">>, <<"check_run", "started_at">>>>
      [] e = "check_suite" -> <<<<"check_suite", "updated_at">>, <<"check_suite", "created_at">>>>
      [] e = "deployment_status" -> <<<<"deployment_status", "updated_at">>>>
      [] e = "status" -> <<<<"updated_at">>>>
      [] e = "release" -> <<<<"release", "published_at">>, <<"release", "created_at">>>>

\* identifier of a type: a copied field, or a repository name and a number
RuleId(e) ==
    CASE e = "push" -> [composed |-> FALSE, path |-> <<"head_commit", "id">>]
      [] e = "pull_request" -> [composed |-> TRUE, path |-> <<"number">>]
      [] e = "pull_request_review" -> [composed |-> FALSE, path |-> <<"review", "id">>]
      [] e = "pull_request_review_comment" -> [composed |-> FALSE, path |-> <<"review", "id">>]
      [] e = "issues" -> [composed |-> TRUE, path |-> <<"issue", "number">>]
      [] e = "issue_comment" -> [composed |-> FALSE, path |-> <<"comment", "id">>]
      [] e = "check_run" -> [composed |-> FALSE, path |-> <<"check_run", "id">>]
      [] e = "check_suite" -> [composed |-> FALSE, path |-> <<"check_suite", "id">>]
      [] e = "deployment_status" -> [composed |-> FALSE, path |-> <<"deployment_status", "id">>]
      [] e = "status" -> [composed |-> FALSE, path |-> <<"id">>]
      [] e = "release" -> [composed |-> FALSE, path |-> <<"release", "id">>]

RepoNamePath == <<"repository", "name">>

\* the normalizer ran on a recognized tag with both headers it reads in place
NormalizedRecognized ==
    /\ nout.kind # "none"
    /\ HasFirst(nin.headers, "X-Github-Event")
    /\ nin.headers["X-Github-Event"][1] \in eventTypes
    /\ HasFirst(nin.headers, "X-Hub-Signature-256")

Tag == nin.headers["X-Github-Event"][1]

\* a JSON number written in decimal (thousandths kept exactly)
DecimalOf(milli) ==
    LET abs == IF milli < 0 THEN -milli ELSE milli
        sign == IF milli < 0 THEN "-" ELSE ""
        frac == abs % 1000
        digits == IF frac % 100 = 0 THEN ToString(frac \div 100)
                  ELSE IF frac % 10 = 0
                       THEN ToString(frac \div 100) \o ToString((frac \div 10) % 10)
                       ELSE ToString(frac \div 100) \o ToString((frac \div 10) % 10)
                            \o ToString(frac % 10)
    IN  sign \o ToString(abs \div 1000) \o (IF frac = 0 THEN "" ELSE "." \o digits)

\* the whole part of a JSON number written in decimal
WholePartOf(milli) ==
    LET abs == IF milli < 0 THEN -milli ELSE milli
    IN  (IF milli < 0 /\ abs >= 1000 THEN "-" ELSE "") \o ToString(abs \div 1000)

\* C5 (as claimed): the normalizer is total: whatever the header mapping and
\* the payload, it returns an event, Skip or an Error and never panics.
C5_NormalizerTotal ==
    nout.kind # "none" => nout.kind \in {"event", "skip", "error"}

\* some timestamp candidate of the type holds a valid RFC 3339 string
FirstTimestampString(e, m) ==
    LET c == RuleTimestamps(e)
    IN  IF IsStringAt(m, c[1]) THEN FieldAt(m, c[1]).v.s
        ELSE IF Len(c) = 2 /\ IsStringAt(m, c[2]) THEN FieldAt(m, c[2]).v.s
        ELSE ""

\* a copied identifier as text: a string as it is, a whole number in decimal
IdentifierText(val) == IF val.t = "string" THEN val.s ELSE DecimalOf(val.milli)

\* C6 (as claimed): for each of the eleven recognized types, a payload with a
\* valid RFC 3339 timestamp string and the identifier field(s) of the type (a
\* copied identifier being a JSON string or a whole JSON number, a composed
\* one a repository name and a whole number) yields an event with that tag,
\* the parsed timestamp and the identifier (or "<name>/<number>") as id.
C6_RequiredFieldsGiveEvent ==
    NormalizedRecognized =>
        LET m == nin.metadata
            ts == FirstTimestampString(Tag, m)
            rule == RuleId(Tag)
            idField == FieldAt(m, rule.path)
            whole(v) == v.t = "float64" /\ v.milli % 1000 = 0
            idThere == IF rule.composed
                       THEN IsStringAt(m, RepoNamePath) /\ idField.p /\ whole(idField.v)
                       ELSE idField.p /\ (idField.v.t = "string" \/ whole(idField.v))
            expectedId == IF rule.composed
                          THEN FieldAt(m, RepoNamePath).v.s \o "/" \o DecimalOf(idField.v.milli)
                          ELSE IdentifierText(idField.v)
        IN  (timeParseRFC3339(ts).ok /\ idThere) =>
                /\ nout.kind = "event"
                /\ nout.event.EventType = Tag
                /\ nout.event.TimeCreated = timeParseRFC3339(ts).t
                /\ nout.event.Id = expectedId

\* C8: for check_run (completed_at, started_at), check_suite (updated_at,
\* created_at) and release (published_at, created_at), with the identifier in
\* place: when the first field holds a string, that string alone decides the
\* result (its parsed time, or a parse error if it is no RFC 3339 time), and
\* the second field is used only when the first holds no string.
C8_TimestampPriority ==
    (NormalizedRecognized /\ Tag \in {"check_run", "check_suite", "release"}
        /\ IsStringAt(nin.metadata, RuleId(Tag).path)) =>
        LET m == nin.metadata
            first == RuleTimestamps(Tag)[1]
            second == RuleTimestamps(Tag)[2]
            decidedBy(str) ==
                IF timeParseRFC3339(str).ok
                THEN nout.kind = "event" /\ nout.event.TimeCreated = timeParseRFC3339(str).t
                ELSE nout.kind = "error"
                     /\ nout.errs = <<[kind |-> "could not parse time_created"]>>
        IN  /\ IsStringAt(m, first) => decidedBy(FieldAt(m, first).v.s)
            /\ (~IsStringAt(m, first) /\ IsStringAt(m, second)) =>
                   decidedBy(FieldAt(m, second).v.s)
            /\ (~IsStringAt(m, first) /\ ~IsStringAt(m, second)) => nout.kind = "error"

\* C8 witness: a check_run with both fields holding different times gave an
\* event dated by completed_at
C8_Witness ==
    /\ NormalizedRecognized /\ Tag = "check_run"
    /\ IsStringAt(nin.metadata, <<"check_run", "completed_at">>)
    /\ IsStringAt(nin.metadata, <<"check_run", "started_at">>)
    /\ nin.metadata["check_run"].m["completed_at"].s = TsB
    /\ nin.metadata["check_run"].m["started_at"].s = TsA
    /\ nout.kind = "event"
    /\ nout.event.TimeCreated = timeParseRFC3339(TsB).t

IdReportedMissing ==
    /\ nout.kind = "error"
    /\ \E i \in 1..Len(nout.errs) : nout.errs[i] = [kind |-> "could not find id"]

\* C9 (as claimed): for pull_request and issues, a string repository.name and
\* a JSON number give the id "<name>/<number in decimal>"; if either part is
\* absent or of another type the identifier is reported missing.
C9_ComposedIdIsNameSlashNumber ==
    (NormalizedRecognized /\ Tag \in {"pull_request", "issues"}) =>
        LET m == nin.metadata
            number == RuleId(Tag).path
            both == IsStringAt(m, RepoNamePath) /\ IsNumberAt(m, number)
        IN  /\ (both /\ nout.kind = "event") =>
                  nout.event.Id = FieldAt(m, RepoNamePath).v.s \o "/"
                                  \o DecimalOf(FieldAt(m, number).v.milli)
            /\ both => ~IdReportedMissing
            /\ ~both => IdReportedMissing

\* C9 (amended): for pull_request and issues, a string repository.name and a
\* JSON number give the id "<name>/<whole part of the number in decimal>":
\* the fraction of the number is dropped (42 and 42.5 both give "<name>/42",
\* -1.5 gives "<name>/-1"); if either part is absent or of another type the
\* identifier is reported missing and no id is composed.
C9_ComposedIdIsNameSlashWholePart ==
    (NormalizedRecognized /\ Tag \in {"pull_request", "issues"}) =>
        LET m == nin.metadata
            number == RuleId(Tag).path
            both == IsStringAt(m, RepoNamePath) /\ IsNumberAt(m, number)
        IN  /\ (both /\ nout.kind = "event") =>
                  nout.event.Id = FieldAt(m, RepoNamePath).v.s \o "/"
                                  \o WholePartOf(FieldAt(m, number).v.milli)
            /\ both => ~IdReportedMissing
            /\ ~both => IdReportedMissing

\* C9 witness: the pull request "acme/widgets" number 42 got the id
\* "acme/widgets/42"
C9_Witness ==
    /\ NormalizedRecognized /\ Tag = "pull_request"
    /\ FieldAt(nin.metadata, RepoNamePath) = [p |-> TRUE, v |-> JString("acme/widgets")]
    /\ FieldAt(nin.metadata, <<"number">>) = [p |-> TRUE, v |-> JNumber(42000)]
    /\ nout.kind = "event"
    /\ nout.event.Id = "acme/widgets/42"

\* the timestamp of the type is missing: no candidate holds a string
TimestampMissing(e, m) ==
    \A i \in 1..Len(RuleTimestamps(e)) : ~IsStringAt(m, RuleTimestamps(e)[i])

\* the identifier of the type is missing: a part is absent or of a type the
\* rule of the type does not read (a number for pull_request_review and
\* pull_request_review_comment, a string for the other copied identifiers)
IdentifierMissing(e, m) ==
    IF RuleId(e).composed
    THEN ~IsStringAt(m, RepoNamePath) \/ ~IsNumberAt(m, RuleId(e).path)
    ELSE IF e \in {"pull_request_review", "pull_request_review_comment"}
         THEN ~IsNumberAt(m, RuleId(e).path)
         ELSE ~IsStringAt(m, RuleId(e).path)

\* an entry of the joined error that reports the missing timestamp / identifier:
\* the fixed text, or for pull_request_review the error of the failed lookup
IsTimeCause(err) ==
    IF Tag = "pull_request_review"
    THEN /\ err # NoError
         /\ err = LookupMapE("string", nin.metadata, <<"review", "submitted_at">>).err
    ELSE err = [kind |-> "could not find time_created"]

IsIdCause(err) ==
    IF Tag = "pull_request_review"
    THEN /\ err # NoError
         /\ err = LookupMapE("float64", nin.metadata, <<"review", "id">>).err
    ELSE err = [kind |-> "could not find id"]

\* C10: for a recognized type the missing timestamp and the missing
\* identifier are accumulated: both missing gives an Error with both causes
\* (timestamp first), exactly one missing gives an Error with exactly that
\* cause, and an event is produced only when neither is missing.
C10_MissingCausesAccumulated ==
    NormalizedRecognized =>
        LET tMiss == TimestampMissing(Tag, nin.metadata)
            iMiss == IdentifierMissing(Tag, nin.metadata)
        IN  /\ (tMiss /\ iMiss) =>
                  /\ nout.kind = "error" /\ Len(nout.errs) = 2
                  /\ IsTimeCause(nout.errs[1]) /\ IsIdCause(nout.errs[2])
            /\ (tMiss /\ ~iMiss) =>
                  /\ nout.kind = "error" /\ Len(nout.errs) = 1
                  /\ IsTimeCause(nout.errs[1])
            /\ (~tMiss /\ iMiss) =>
                  /\ nout.kind = "error" /\ Len(nout.errs) = 1
                  /\ IsIdCause(nout.errs[1])
            /\ nout.kind = "event" => (~tMiss /\ ~iMiss)

\* C10 witness: an issues payload with neither issue.updated_at nor
\* issue.number was answered with both causes
C10_Witness ==
    /\ NormalizedRecognized /\ Tag = "issues"
    /\ ~FieldAt(nin.metadata, <<"issue", "updated_at">>).p
    /\ ~FieldAt(nin.metadata, <<"issue", "number">>).p
    /\ nout.kind = "error"
    /\ nout.errs = <<[kind |-> "could not find time_created"],
                     [kind |-> "could not find id"]>>

(***************************************************************************)
(* Claims about the deployment (Spec).                                     *)
(***************************************************************************)
AtIngress == exchange.svc = "event-handler"
AtParser == exchange.svc = "github-parser"

\* the signature indexPost hands to the verifier: the query's, else the header's
PresentedSignature(r) ==
    IF HeaderGet(r.query, "X-Hub-Signature-256") # ""
    THEN HeaderGet(r.query, "X-Hub-Signature-256")
    ELSE HeaderGet(r.header, "X-Hub-Signature-256")

SourceAuthorized(r) == getSource(r.header) = "github"

VerificationReturnedTrue(r) ==
    verifyGithubSignature256(githubWebhookSecret, PresentedSignature(r), r.body)
        = Returned(TRUE)

\* C1: a POST whose body can be read is republished only if its source is
\* authorized and the verification returned true, and a POST that fails
\* either check is answered 403 with nothing published
C1_UnverifiedAnswered403 ==
    (AtIngress /\ exchange.req.method = "POST" /\ exchange.req.readable) =>
        /\ exchange.published # <<>> =>
              SourceAuthorized(exchange.req) /\ VerificationReturnedTrue(exchange.req)
        /\ ~(SourceAuthorized(exchange.req) /\ VerificationReturnedTrue(exchange.req)) =>
              exchange.status = 403 /\ exchange.published = <<>>

\* the pushed message was republished for a GitHub push with the commit in
\* its body
PushOfCommitDelivered ==
    /\ AtParser /\ exchange.via = "push"
    /\ base64DecodeString(
          exchange.req.body.v.m["message"].m["data"].s).bytes = PushBody
    /\ LET sent == jsonUnmarshalHeaders(
                      exchange.req.body.v.m["message"].m["attributes"].m["headers"].s).attrs
       IN  HeaderGet(sent, "X-Github-Event") = "push"

\* C4: a correctly signed GitHub push with head_commit.id and
\* head_commit.timestamp is answered 204 and republished when Pub/Sub takes
\* it, and the parser answers the delivery of the republished message with
\* 200 and one push event of source github whose id is the commit's,
\* whether the signature came in the query or in the header
C4_PushEndToEnd ==
    /\ (/\ AtIngress /\ exchange.req.method = "POST" /\ exchange.req.readable
        /\ exchange.net = "ok"
        /\ SourceAuthorized(exchange.req) /\ VerificationReturnedTrue(exchange.req)
        /\ exchange.req.body = PushBody) =>
            exchange.status = 204 /\ Len(exchange.published) = 1
    /\ PushOfCommitDelivered =>
            /\ exchange.status = 200
            /\ exchange.outcome.kind = "event"
            /\ exchange.outcome.event.EventType = "push"
            /\ exchange.outcome.event.Id = "c0ffee"
            /\ exchange.outcome.event.Source = "github"
            /\ Len(exchange.inserted) <= 1

TrackedTypes ==
    {"push", "pull_request", "pull_request_review", "pull_request_review_comment",
     "issues", "issue_comment", "check_run", "check_suite", "status",
     "deployment_status", "release"}

\* the parser handed the normalizer an event-type tag that is not tracked
UntrackedTagDispatched(x) ==
    /\ x.svc = "github-parser"
    /\ x.call.made
    /\ HasFirst(x.call.headers, "X-Github-Event")
    /\ x.call.headers["X-Github-Event"][1] \notin TrackedTypes

\* C7: whenever the normalizer is called with a tag outside the recognized
\* set it returns Skip without an error, the sink is left as it was, and the
\* parser answers 200
C7_UnrecognizedTagSkipped ==
    [][UntrackedTagDispatched(exchange') =>
          /\ exchange'.outcome = SkipResult
          /\ exchange'.inserted = <<>>
          /\ sink' = sink
          /\ exchange'.status = 200]_vars

C7_Witness ==
    /\ UntrackedTagDispatched(exchange)
    /\ exchange.via = "push"
    /\ exchange.call.headers["X-Github-Event"] = <<"star">>
    /\ exchange.outcome.kind = "skip"
    /\ exchange.status = 200

\* strings of the model that are no RFC 3339 time
UnparsableStamps == {"yesterday", "2024-02-30T00:00:00Z", "acme/widgets"}

\* the parser handed the normalizer a tracked tag, the signature header and a
\* payload whose first timestamp string of the type is no RFC 3339 time
UnparsableTimestampDispatched(x) ==
    /\ x.svc = "github-parser"
    /\ x.call.made
    /\ HasFirst(x.call.headers, "X-Github-Event")
    /\ x.call.headers["X-Github-Event"][1] \in TrackedTypes
    /\ HasFirst(x.call.headers, "X-Hub-Signature-256")
    /\ ~TimestampMissing(x.call.headers["X-Github-Event"][1], x.call.metadata)
    /\ FirstTimestampString(x.call.headers["X-Github-Event"][1], x.call.metadata)
           \in UnparsableStamps

\* C11: when the timestamp string the rule of a recognized type resolves to
\* is no RFC 3339 time, the normalizer returns an Error (no Skip, no event),
\* the parser inserts nothing, answers 200, and a pushed message is thereby
\* acknowledged and not delivered again
C11_UnparsableTimestampIsDroppedError ==
    [][UnparsableTimestampDispatched(exchange') =>
          /\ exchange'.outcome.kind = "error"
          /\ exchange'.inserted = <<>>
          /\ sink' = sink
          /\ exchange'.status = 200
          /\ exchange'.via = "push" => Len(topic') = Len(topic) - 1]_vars

\* C11 witness: the pushed message of a push whose head_commit.timestamp is
\* "yesterday" was answered 200 with the parse error and no row
C11_Witness ==
    /\ UnparsableTimestampDispatched(exchange)
    /\ exchange.via = "push"
    /\ exchange.call.rawMetadata = MisdatedBody
    /\ exchange.outcome = ErrorResult(<<[kind |-> "could not parse time_created"]>>)
    /\ exchange.inserted = <<>>
    /\ exchange.status = 200

\* a field of a JSON object that is absent or null, or satisfies ok
FieldFits(obj, name, ok(_)) ==
    name \notin DOMAIN obj \/ obj[name].t = "nil" \/ ok(obj[name])

\* the body is envelope JSON: null, or an object whose message, attributes,
\* messageId, publishTime, data, headers and subscription, where given, are
\* objects, strings and an RFC 3339 time
IsEnvelopeJson(doc) ==
    /\ doc.valid
    /\ doc.v.t \in {"nil", "map"}
    /\ doc.v.t = "map" =>
          /\ FieldFits(doc.v.m, "subscription", LAMBDA x : x.t = "string")
          /\ FieldFits(doc.v.m, "message", LAMBDA msg :
                /\ msg.t = "map"
                /\ FieldFits(msg.m, "messageId", LAMBDA x : x.t = "string")
                /\ FieldFits(msg.m, "data", LAMBDA x : x.t = "string")
                /\ FieldFits(msg.m, "publishTime", LAMBDA x :
                      x.t = "string" /\ timeParseRFC3339(x.s).ok)
                /\ FieldFits(msg.m, "attributes", LAMBDA at :
                      /\ at.t = "map"
                      /\ FieldFits(at.m, "headers", LAMBDA x : x.t = "string")))

\* message.<name> of the body, as sent ("none" if it is not there)
SentMessageField(doc, name) ==
    IF doc.valid /\ doc.v.t = "map" /\ "message" \in DOMAIN doc.v.m
       /\ doc.v.m["message"].t = "map" /\ name \in DOMAIN doc.v.m["message"].m
    THEN doc.v.m["message"].m[name]
    ELSE [t |-> "none"]

\* message.attributes.headers as sent: a JSON text (NotJson if there is none)
SentHeadersText(doc) ==
    LET at == SentMessageField(doc, "attributes")
    IN  IF at.t = "map" /\ "headers" \in DOMAIN at.m /\ at.m["headers"].t = "string"
        THEN at.m["headers"].s
        ELSE NotJson

\* message.data as sent ("" if there is none)
SentData(doc) ==
    LET d == SentMessageField(doc, "data")
    IN  IF d.t = "string" THEN d.s ELSE ""

\* the text decodes to a mapping from header name to list of values (null
\* being the empty mapping, the empty list and the empty value)
IsHeaderMapping(text) ==
    /\ text.valid
    /\ text.v.t \in {"nil", "map"}
    /\ text.v.t = "map" =>
          \A k \in DOMAIN text.v.m :
              \/ text.v.m[k].t = "nil"
              \/ /\ text.v.m[k].t = "array"
                 /\ \A i \in 1..Len(text.v.m[k].a) :
                        text.v.m[k].a[i].t \in {"string", "nil"}

\* the JSON value the base64 text data holds ("none" if it holds none)
SentPayload(data) ==
    LET d == base64DecodeString(data)
    IN  IF ~d.err /\ d.bytes \in DOMAIN JsonDocuments THEN JsonDocuments[d.bytes]
        ELSE [t |-> "none"]

ParserHandled == AtParser /\ exchange.req.method \in {"POST", "GET"}

AbortedWith500 ==
    /\ ~exchange.call.made
    /\ exchange.inserted = <<>>
    /\ exchange.status = 500

\* C12 (as claimed): a request whose body cannot be read or is no envelope
\* JSON, whose attributes.headers does not decode to a mapping from header
\* name to list of values, whose data is no base64 or whose decoded data is
\* not a JSON object, is answered 500 without the normalizer being invoked
\* and with nothing inserted; no other request is answered 500.
C12_UndecodableAborted500 ==
    ParserHandled =>
        LET body == exchange.req.body
            undecodable ==
                \/ ~exchange.req.readable
                \/ ~IsEnvelopeJson(body)
                \/ ~IsHeaderMapping(SentHeadersText(body))
                \/ base64DecodeString(SentData(body)).err
                \/ SentPayload(SentData(body)).t # "map"
        IN  /\ undecodable => AbortedWith500
            /\ exchange.status = 500 => undecodable

\* C12 (amended): as claimed, except that decoded data which is the JSON
\* value null is taken like the empty object: the request is aborted with 500
\* when the decoded data is neither a JSON object nor null.
C12_UndecodableButNullAborted500 ==
    ParserHandled =>
        LET body == exchange.req.body
            undecodable ==
                \/ ~exchange.req.readable
                \/ ~IsEnvelopeJson(body)
                \/ ~IsHeaderMapping(SentHeadersText(body))
                \/ base64DecodeString(SentData(body)).err
                \/ SentPayload(SentData(body)).t \notin {"map", "nil"}
        IN  /\ undecodable => AbortedWith500
            /\ exchange.status = 500 => undecodable

\* C12 witness: an envelope whose data is the base64 of a JSON list was
\* answered 500 before dispatch
C12_Witness ==
    /\ ParserHandled
    /\ exchange.req.readable
    /\ IsEnvelopeJson(exchange.req.body)
    /\ IsHeaderMapping(SentHeadersText(exchange.req.body))
    /\ SentPayload(SentData(exchange.req.body)) = JArray(<<JNumber(1000)>>)
    /\ AbortedWith500

\* the parser got an event from the normalizer and the sink refused the row
InsertionFailed(x) ==
    /\ x.svc = "github-parser"
    /\ x.call.made
    /\ x.outcome.kind = "event"
    /\ ~x.sinkUp

\* C13: when the normalizer produced an event and the insertion into the
\* sink fails, the parser answers 200: the row is dropped (the sink is left
\* as it was) and a pushed message is acknowledged, not delivered again
C13_SinkFailureAcknowledged ==
    [][InsertionFailed(exchange') =>
          /\ exchange'.status = 200
          /\ exchange'.inserted = <<>>
          /\ sink' = sink
          /\ exchange'.via = "push" => Len(topic') = Len(topic) - 1]_vars

\* C13 witness: the pushed message of a genuine push gave an event, the sink
\* was down, and the delivery was answered 200 with no row
C13_Witness ==
    /\ InsertionFailed(exchange)
    /\ exchange.via = "push"
    /\ exchange.outcome.event.EventType = "push"
    /\ exchange.outcome.event.Id = "c0ffee"
    /\ exchange.status = 200
    /\ exchange.inserted = <<>>
    /\ sink = <<>>

(***************************************************************************)
(* Claims about the source classifier (SpecSource).                        *)
(***************************************************************************)
\* the value of a header: its first value, "" if it has none
FirstValue(h, name) ==
    IF name \in DOMAIN h /\ h[name] # <<>> THEN Head(h[name]) ELSE ""

\* the priority list: tag and predicate, earliest first
SourceRules(h) ==
    << [tag |-> "gitlab", matches |-> "X-Gitlab-Event" \in DOMAIN h],
       [tag |-> "tekton", matches |-> StrContains(FirstValue(h, "Ce-Type"), "tekton")],
       [tag |-> "github",
        matches |-> StrContains(FirstValue(h, "User-Agent"), "GitHub-Hookshot")],
       [tag |-> "circleci", matches |-> "Circleci-Event-Type" \in DOMAIN h],
       [tag |-> "pagerduty", matches |-> "X-Pagerduty-Signature" \in DOMAIN h] >>

MatchingRules(h) == {i \in 1..Len(SourceRules(h)) : SourceRules(h)[i].matches}

\* C14: the source is the tag of the earliest rule of the priority list
\* (gitlab, tekton, github, circleci, pagerduty) whose predicate matches the
\* headers, and the first User-Agent value verbatim ("" if there is none)
\* when no rule matches
C14_FirstMatchingRuleDecides ==
    cout.fn = "getSource" =>
        LET hit == MatchingRules(cin)
        IN  IF hit = {}
            THEN cout.source = FirstValue(cin, "User-Agent")
            ELSE cout.source =
                    SourceRules(cin)[CHOOSE i \in hit : \A j \in hit : i <= j].tag

\* C14 witness: headers that match the gitlab, github and pagerduty rules
\* were classified gitlab
C14_Witness ==
    /\ cout.fn = "getSource"
    /\ {1, 3, 5} \subseteq MatchingRules(cin)
    /\ cout.source = "gitlab"

(***************************************************************************)
(* Claims about the republished message (Spec).                            *)
(***************************************************************************)
\* the JSON object that serializes a mapping from header name to value list
HeadersAsJson(h) ==
    JObject([k \in DOMAIN h |-> JArray([i \in 1..Len(h[k]) |-> JString(h[k][i])])])

WithoutAuthorization(h) == [k \in DOMAIN h \ {"Authorization"} |-> h[k]]

\* C15: what ingress republishes for a request is one message whose only
\* attribute is "headers", the JSON object of the request's headers without
\* Authorization (every other name with its values, in order), and whose
\* data is the request body as it was verified; it is what the topic holds
C15_RepublishedHeadersAndBody ==
    (AtIngress /\ exchange.published # <<>>) =>
        LET msg == exchange.published[1]
            kept == WithoutAuthorization(exchange.req.header)
        IN  /\ Len(exchange.published) = 1
            /\ DOMAIN msg.Attributes = {"headers"}
            /\ msg.Attributes.headers.valid
            /\ msg.Attributes.headers.v = HeadersAsJson(kept)
            /\ "Authorization" \notin DOMAIN msg.Attributes.headers.v.m
            /\ jsonUnmarshalHeaders(msg.Attributes.headers).attrs = kept
            /\ msg.Data = exchange.req.body
            /\ VerificationReturnedTrue(exchange.req)
            /\ topic # <<>>
            /\ topic[Len(topic)].Data = msg.Data
            /\ topic[Len(topic)].Attributes = msg.Attributes

\* C15 witness: a genuine push sent with an Authorization header was
\* republished with its three other headers
C15_Witness ==
    /\ AtIngress /\ exchange.published # <<>>
    /\ "Authorization" \in DOMAIN exchange.req.header
    /\ DOMAIN exchange.published[1].Attributes.headers.v.m =
           {"User-Agent", "X-Github-Event", "X-Hub-Signature-256"}
    /\ exchange.published[1].Data = PushBody

(***************************************************************************)
(* Claims about the navigators (SpecLookup).                               *)
(***************************************************************************)
\* the node a path leads to from a node: every key must be present in a
\* node that is a mapping
RECURSIVE NodeAt(_, _)
NodeAt(node, path) ==
    IF path = <<>> THEN [there |-> TRUE, v |-> node]
    ELSE IF node.t = "map" /\ Head(path) \in DOMAIN node.m
         THEN NodeAt(node.m[Head(path)], Tail(path))
         ELSE [there |-> FALSE, v |-> JNull]

ZeroOf(T) ==
    CASE T = "string" -> ""
      [] T = "bool" -> FALSE
      [] OTHER -> 0

\* the value of a leaf as a value of its type (a float64 in thousandths)
Held(val) ==
    CASE val.t = "string" -> val.s
      [] val.t = "float64" -> val.milli
      [] val.t = "int" -> val.i
      [] val.t = "bool" -> val.b

Target == NodeAt(JObject(lin.m), lin.keys)

Resolves == Target.there /\ Target.v.t = lin.T

\* C16: LookupMap returns (v, true) exactly when every key of the path is
\* present, in order, in a node that is a mapping and the value v reached has
\* the requested type; in every other case it returns the zero value of the
\* type and false; [a, b, c] over {a: {b: {c: "d"}}} gives ("d", true)
C16_SilentLookupAllOrNothing ==
    lout.fn = "LookupMap" =>
        /\ lout.ok <=> Resolves
        /\ lout.ok => lout.v = Held(Target.v)
        /\ ~lout.ok => lout.v = ZeroOf(lin.T)
        /\ (lin.m = NestedTree /\ lin.keys = <<"a", "b", "c">> /\ lin.T = "string") =>
               (lout.v = "d" /\ lout.ok)

\* C16 witness: the lookup of [a, b, c] as a string in {a: {b: {c: "d"}}}
\* returned ("d", true)
C16_Witness ==
    /\ lout.fn = "LookupMap"
    /\ lin.m = NestedTree /\ lin.keys = <<"a", "b", "c">> /\ lin.T = "string"
    /\ lout.v = "d" /\ lout.ok

\* the first key of the path that is not found, by its position
FirstMissing ==
    CHOOSE i \in 1..Len(lin.keys) :
        /\ ~NodeAt(JObject(lin.m), SubSeq(lin.keys, 1, i)).there
        /\ NodeAt(JObject(lin.m), SubSeq(lin.keys, 1, i - 1)).there

\* C17 (as claimed): when LookupMapE fails it returns the zero value and an
\* error: for a key that is not found (its parent lacks it or is a scalar)
\* "key <key> not found in <path walked before it, joined by dots>", for a
\* final value of another type "value <value> is not of type <type>"
C17_DiagnosticErrorTexts ==
    (lout.fn = "LookupMapE" /\ ~Resolves) =>
        /\ lout.v = ZeroOf(lin.T)
        /\ lout.err # NoError
        /\ IF ~Target.there
           THEN lout.text = "key " \o lin.keys[FirstMissing] \o " not found in "
                            \o StringsJoin(SubSeq(lin.keys, 1, FirstMissing - 1), ".")
           ELSE lout.text = "value " \o formatV(Target.v) \o " is not of type " \o lin.T

\* C18 (as claimed): LookupMapE with the requested type int, on a tree
\* decoded from JSON whose leaf at the path is an integer literal, returns
\* that integer and no error
C18_IntFromDecodedJson ==
    (/\ lout.fn = "LookupMapE" /\ lin.T = "int" /\ lin.origin = "json"
     /\ Target.there /\ Target.v.t = "float64" /\ Target.v.milli % 1000 = 0) =>
        /\ lout.err = NoError
        /\ lout.v = Target.v.milli \div 1000

(***************************************************************************)
(* Claims about the copied fields of the record (Spec).                    *)
(***************************************************************************)
\* the first value the headers text of an envelope gives for a name
SentFirstValue(text, name) == text.v.m[name].a[1].s

\* C20: in every event the parser gets from the normalizer, eventType is the
\* first X-Github-Event value and signature the first X-Hub-Signature-256
\* value of the envelope's headers (whatever that value is), msgId is the
\* envelope's messageId, metadata is the base64-decoded data byte for byte,
\* and source is github_mock if the headers have a Mock key and github if not
C20_CopiedFields ==
    (AtParser /\ exchange.call.made /\ exchange.outcome.kind = "event") =>
        LET body == exchange.req.body
            text == SentHeadersText(body)
            event == exchange.outcome.event
        IN  /\ event.EventType = SentFirstValue(text, "X-Github-Event")
            /\ event.Signature = SentFirstValue(text, "X-Hub-Signature-256")
            /\ event.MsgId = SentMessageField(body, "messageId").s
            /\ event.Metadata = base64DecodeString(SentData(body)).bytes
            /\ event.Source =
                  IF "Mock" \in DOMAIN text.v.m THEN "github_mock" ELSE "github"

\* C20 witness: an envelope with two values for each header, a Mock key
\* without value and a payload written with spaces gave an event that copies
\* the first values and the payload as written, with source github_mock
C20_Witness ==
    /\ AtParser /\ exchange.call.made /\ exchange.outcome.kind = "event"
    /\ exchange.outcome.event.EventType = "push"
    /\ exchange.outcome.event.Signature = "sha256=00ff"
    /\ exchange.outcome.event.MsgId = "m1"
    /\ exchange.outcome.event.Metadata = SpacedBody
    /\ exchange.outcome.event.Source = "github_mock"
    /\ exchange.call.headers["Mock"] = <<>>

(***************************************************************************)
(* Claims about the answer of the ingress to a failed republish (Spec).    *)
(***************************************************************************)
\* the requests of the model that are from an authorized source and carry
\* a signature the verifier accepts
VerifiedRequests ==
    {r \in IngressRequests : SourceAuthorized(r) /\ VerificationReturnedTrue(r)}

\* the ingress took the request as an authorized, verified delivery
PassedChecks(x) ==
    /\ x.svc = "event-handler"
    /\ x.req.method = "POST"
    /\ x.req.readable
    /\ x.req \in VerifiedRequests

\* the republish step cannot succeed: Pub/Sub gives no client or refuses the
\* publish, or the body is no JSON
RepublishFails(x) == x.net # "ok" \/ jsonUnmarshalAny(x.req.body).err

\* C21: an authorized, verified request whose republish fails (no client,
\* body that is no JSON, failed publish) is answered 204 with nothing
\* published and the topic as it was, and one whose republish succeeds is
\* answered 204 too, with its message published
C21_FailedRepublishAnswered204 ==
    [][PassedChecks(exchange') =>
          /\ exchange'.status = 204
          /\ RepublishFails(exchange') =>
                exchange'.published = <<>> /\ topic' = topic
          /\ ~RepublishFails(exchange') =>
                Len(exchange'.published) = 1 /\ Len(topic') = Len(topic) + 1]_vars

\* C21 witness: a correctly signed delivery whose body is no JSON was
\* answered 204 while Pub/Sub was working, and nothing is in the topic
C21_Witness ==
    /\ PassedChecks(exchange)
    /\ exchange.net = "ok"
    /\ exchange.req.body = BrokenBody
    /\ exchange.status = 204
    /\ exchange.published = <<>>
    /\ topic = <<>>

====
